---- MODULE Spec2Model ----
(***************************************************************************)
(* A model of silkenweb's node-reconciliation core:                        *)
(*   - ChildGroups   (crates/dom/src/element/child_groups.rs)              *)
(*   - Memo          (crates/core/src/hooks/memo.rs)                       *)
(*   - hydration     (crates/dom/src/element/dom.rs,                       *)
(*                    packages/silkenweb/src/node.rs)                      *)
(*   - mount         (packages/silkenweb/src/lib.rs, document/wet.rs)      *)
(* Each component has its own specification over the shared variables.     *)
(***************************************************************************)
EXTENDS Integers, Sequences, FiniteSets, TLC

\* ------------------------------------------------------------------ bounds
\* Cap on the number of regions registered on one ChildGroups.
MaxGroups == 3
\* Number of distinct child nodes callers can pass.
MaxNodes == 3

\* Number of distinct key values of the first (Key, Value) type pair passed to
\* Memo::cache; the second type pair is used with one key value.
MaxKey == 2
\* Number of distinct values a compute closure can return.
MaxValue == 2

\* Number of cycles over which the age of a request is counted exactly.
MaxAge == 3

\* Longest list of children of a described or of a pre-existing live element.
MaxChildren == 2

\* Number of mount points (elements with an id) the document starts with.
MaxMountPoints == 2
\* Number of elements the application builds and mounts.
MaxMounts == 2

\* Number of ids head content is mounted under.
MaxHeadIds == 2
\* Number of head contents the application builds and mounts.
MaxHeadMounts == 3

\* Number of nodes (DomElement::new, DomText::new) created.
MaxAlloc == 3

\* Number of calls of state(), each making one StateSetter.
MaxSetters == 3
\* Number of distinct values passed to StateSetter::set.
MaxNewValue == 2

\* Option::None of a slot.
None == 0
Nodes == 1..MaxNodes

VARIABLES
    \* ChildGroups fields
    children,          \* Vec<Option<StrictElement>>: None or a node
    last_is_dynamic,   \* bool
    group_count,       \* usize
    parent,            \* the live children of ChildGroups::parent, in document order
    \* bookkeeping of the calls made on the ChildGroups
    ret,               \* value returned by the last call
    slot_calls,        \* TRUE while only new_group, upsert_only_child and remove_child
                       \* were called, each upsert with a node never passed before
    used,              \* the nodes passed so far (kept while slot_calls holds)
    sync_log,          \* the children passed to append_new_group_sync, in call order,
                       \* while nothing else was called; Broken afterwards
    regions            \* the groups in registration order, each with its slot and, for
                       \* a synchronous append, its child, while only new_group,
                       \* append_new_group_sync, upsert_only_child and remove_child were
                       \* called, with distinct children and the last two on indices
                       \* new_group returned; Untracked afterwards

VARIABLES
    \* MemoData behind the Rc, and the effect queue of queue_effect
    current_memoized,  \* AnyMap: type pair -> (key -> value)
    next_memoized,     \* AnyMap
    memo_alive,        \* TRUE while a Memo handle (strong Rc) exists
    effect_queue,      \* FIFO of queued closures; each is a swap holding a Weak
    \* what the last cache call did
    memo_ret,          \* the value it returned (None before the first call)
    value_fn_called,   \* whether it invoked its value_fn
    \* bookkeeping of the requests, per (type pair, key)
    age,               \* cycles since the key was last requested: 0 this cycle,
                       \* 1 the previous one, ..., capped at MaxAge, or Never
    req_value,         \* the value the last request returned (kept while age <= 1)
    touched1,          \* cache was called in the previous cycle
    touched2,          \* cache was called in the cycle before the previous one
    memo_panic         \* a cache call failed on RefCell::borrow_mut (BorrowMutError)

memoVars == <<current_memoized, next_memoized, memo_alive, effect_queue, memo_ret,
              value_fn_called, age, req_value, touched1, touched2, memo_panic>>

VARIABLES
    \* one DomNodeData under hydration and the live node it is hydrated against
    hy_virt,           \* the markup-buildable description held while dry
    hy_child,          \* the pre-existing live node `child` of `parent`
    hy_state,          \* "dry", "wet" or "panicked"
    hy_wet,            \* the live representation once wet (NoNode before)
    hy_at_child,       \* the live node at the position of `child` in `parent`
    hy_stats,          \* HydrationStats
    hy_by,             \* the call that made the node wet
    hy_twin,           \* a node that was wet from the start and got the same calls
    hy_touched         \* a mutating call was made on the node since it became wet

hyVars == <<hy_virt, hy_child, hy_state, hy_wet, hy_at_child, hy_stats, hy_by, hy_twin,
           hy_touched>>

VARIABLES
    document,          \* the nodes of the live document, in document order
    ELEMENTS,          \* thread_local ELEMENTS: handle id -> mounted element
    ELEMENT_HANDLE_ID, \* thread_local ELEMENT_HANDLE_ID
    wet_mounted,       \* the elements registered by wet_insert_mounted, by id
    handles,           \* the MountHandles not dropped yet: id -> (mount_point, on_drop)
    built,             \* number of elements built so far
    mount_panic        \* the id named by mount_point's panic, or None

mountVars == <<document, ELEMENTS, ELEMENT_HANDLE_ID, wet_mounted, handles, built,
               mount_panic>>

VARIABLES
    has_head,               \* document::head() is Some
    head_doc,               \* the children of the live head element mounted so far
    Wet_MOUNTED_IN_HEAD,    \* thread_local MOUNTED_IN_HEAD of document/wet.rs
    Hydro_MOUNTED_IN_HEAD,  \* thread_local MOUNTED_IN_HEAD of document/hydro.rs
    head_tasks,             \* spawned head hydration tasks not run yet: content -> id
    head_built,             \* number of head contents built so far
    head_ret,               \* what the last mount_in_head returned
    head_panic              \* the id named by a failed duplicate-id assertion, or None

headVars == <<has_head, head_doc, Wet_MOUNTED_IN_HEAD, Hydro_MOUNTED_IN_HEAD, head_tasks,
              head_built, head_ret, head_panic>>

VARIABLES
    hydro    \* the elements given to Hydro::mount: number -> id, task, handle, dry

hydroVars == <<hydro>>

VARIABLES
    allocated,   \* the representations created so far, in order of creation
    handle_a,    \* two DomNodeData handles: the index of the representation each
    handle_b,    \* refers to, or None
    same_ret     \* what the last is_same returned

sameVars == <<allocated, handle_a, handle_b, same_ret>>

VARIABLES
    setters,           \* number of StateSetters made by state() so far
    held,              \* the StateSetter clones application code holds
    new_state,         \* Rc<Cell<Option<T>>> of each setter, shared by its clones
    UPDATE_QUEUE,      \* thread_local UPDATE_QUEUE: the queued StateSetter clones
    frame_requested,   \* number of request_animation_frame callbacks pending
    applied,           \* the <<setter, value>> pairs State::update was run with
    update_panic       \* the unwrap that failed in StateSetter::update, or "none"

updVars == <<setters, held, new_state, UPDATE_QUEUE, frame_requested, applied,
             update_panic>>

cgVars == <<children, last_is_dynamic, group_count, parent, ret, slot_calls, used,
            sync_log, regions>>

vars == <<cgVars, memoVars, hyVars, mountVars, headVars, hydroVars, sameVars, updVars>>

\* ------------------------------------------------------------ sequences
Range(s) == {s[i] : i \in 1..Len(s)}

IndexOf(s, x) == CHOOSE i \in 1..Len(s) : s[i] = x

Without(s, x) == SelectSeq(s, LAMBDA y : y # x)

InsertAt(s, i, x) == SubSeq(s, 1, i - 1) \o <<x>> \o SubSeq(s, i, Len(s))

\* ------------------------------------------------- the parent's mutation contract
\* Node.appendChild: the child ends last; a node that is already a child moves.
ParentAppendChild(p, child) == Append(Without(p, child), child)

\* Node.insertBefore(child, next): with no `next` it appends; a node that is already
\* a child moves; inserting a node before itself leaves the order as it is.
ParentInsertChildBefore(p, child, next) ==
    IF next = None THEN ParentAppendChild(p, child)
    ELSE IF next = child \/ next \notin Range(p) THEN p
    ELSE LET q == Without(p, child) IN InsertAt(q, IndexOf(q, next), child)

\* Node.removeChild
ParentRemoveChild(p, child) == Without(p, child)

\* ------------------------------------------------------------ ChildGroups
\* Return values: unit, the index new_group returns, the bool upsert_only_child returns.
RetUnit == [kind |-> "unit", index |-> 0, existed |-> FALSE]
RetIndex(i) == [kind |-> "index", index |-> i, existed |-> FALSE]
RetBool(b) == [kind |-> "bool", index |-> 0, existed |-> b]
\* The call did not return: its assertion failed.
RetPanic == [kind |-> "panic", index |-> 0, existed |-> TRUE]

\* The value of sync_log once a call other than append_new_group_sync was made.
Broken == <<None>>

\* One registered group: its slot (1-based; 0 for a group that was given no slot)
\* and the child append_new_group_sync registered it with (None for new_group).
Region(slot, sync) == [slot |-> slot, sync |-> sync]

\* The value of regions once the calls are no longer tracked.
Untracked == <<Region(0, None)>>

CGInit ==
    /\ children = <<>>
    /\ last_is_dynamic = FALSE
    /\ group_count = 0
    /\ parent = <<>>
    /\ ret = RetUnit
    /\ slot_calls = TRUE
    /\ used = {}
    /\ sync_log = <<>>
    /\ regions = <<>>

\* Indices are 0-based as in the source; slot `index` is children[index + 1].
Indices == 0..(Len(children) - 1)

\* Mutant: split_at(index) instead of split_at(index + 1): slot `index` itself counts.
NextGroupElemOf_SplitAtIndex(slots, index) ==
    LET after == {j \in (index + 1)..Len(slots) : slots[j] # None}
    IN IF after = {} THEN None
       ELSE slots[CHOOSE j \in after : \A k \in after : j <= k]

\* self.children.split_at(index + 1).1.iter().flatten().next()
NextGroupElemOf(slots, index) ==
    LET after == {j \in (index + 2)..Len(slots) : slots[j] # None}
    IN IF after = {} THEN None
       ELSE slots[CHOOSE j \in after : \A k \in after : j <= k]

get_next_group_elem(index) == NextGroupElemOf(children, index)

\* Mutant: the slots are counted instead of the regions.
is_single_group_Slots == Len(children) = 1

is_single_group == group_count = 1



\* Bookkeeping of a call: `slot` says the call is one of new_group, upsert_only_child
\* and remove_child, `nodes` holds the child passed, `sync` is the child passed to
\* append_new_group_sync or None.
Note(slot, nodes, sync) ==
    LET fresh == nodes \cap used = {}
        ok == slot_calls /\ slot /\ fresh
        \* the slots given to append_new_group_sync, and the slots the call changed
        sync_slots == {regions[g].slot : g \in {h \in 1..Len(regions) : regions[h].sync # None}}
        changed == {j \in 1..Len(children) : children'[j] # children[j]}
        tracked == /\ regions # Untracked
                   /\ slot \/ sync # None
                   /\ fresh
                   /\ changed \cap sync_slots = {}
        pushed == IF Len(children') > Len(children) THEN Len(children') ELSE 0
    IN /\ slot_calls' = ok
       /\ used' = IF tracked THEN used \cup nodes ELSE {}
       /\ sync_log' = IF sync # None /\ sync_log # Broken
                      THEN Append(sync_log, sync) ELSE Broken
       /\ regions' = IF ~tracked THEN Untracked
                     ELSE IF sync # None THEN Append(regions, Region(pushed, sync))
                     ELSE IF pushed # 0 THEN Append(regions, Region(pushed, None))
                     ELSE regions

\* Mutant: the index returned is the number of regions instead of children.len().
new_group_ReturnsCount ==
    /\ group_count < MaxGroups
    /\ group_count' = group_count + 1
    /\ last_is_dynamic' = TRUE
    /\ children' = Append(children, None)
    /\ ret' = RetIndex(group_count)
    /\ Note(TRUE, {}, None)
    /\ UNCHANGED parent

new_group ==
    /\ group_count < MaxGroups
    /\ group_count' = group_count + 1
    /\ last_is_dynamic' = TRUE
    /\ children' = Append(children, None)
    /\ ret' = RetIndex(Len(children))
    /\ Note(TRUE, {}, None)
    /\ UNCHANGED parent

\* Mutant: a slot is pushed whether or not the last group is dynamic.
append_new_group_sync_AlwaysPush(child) ==
    /\ group_count < MaxGroups
    /\ children' = Append(children, child)
    /\ group_count' = group_count + 1
    /\ parent' = ParentAppendChild(parent, child)
    /\ last_is_dynamic' = FALSE
    /\ ret' = RetUnit
    /\ Note(FALSE, {child}, child)

\* Mutant: the child overwrites the dynamic last slot instead of getting its own.
append_new_group_sync_Overwrite(child) ==
    /\ group_count < MaxGroups
    /\ children' = IF last_is_dynamic
                   THEN [children EXCEPT ![Len(children)] = child]
                   ELSE children
    /\ group_count' = group_count + 1
    /\ parent' = ParentAppendChild(parent, child)
    /\ last_is_dynamic' = FALSE
    /\ ret' = RetUnit
    /\ Note(FALSE, {child}, child)

\* Mutant: no slot is pushed even when the last group is dynamic.
append_new_group_sync_NeverPush(child) ==
    /\ group_count < MaxGroups
    /\ children' = children
    /\ group_count' = group_count + 1
    /\ parent' = ParentAppendChild(parent, child)
    /\ last_is_dynamic' = FALSE
    /\ ret' = RetUnit
    /\ Note(FALSE, {child}, child)

append_new_group_sync(child) ==
    /\ group_count < MaxGroups
    /\ children' = IF last_is_dynamic THEN Append(children, child) ELSE children
    /\ group_count' = group_count + 1
    /\ parent' = ParentAppendChild(parent, child)
    /\ last_is_dynamic' = FALSE
    /\ ret' = RetUnit
    /\ Note(FALSE, {child}, child)

\* mem::replace, remove the existing node, then insert_last_child
UpsertChildren(index, child) == [children EXCEPT ![index + 1] = child]

\* Mutant: the existing occupant is not removed from the parent.
UpsertParent_KeepExisting(index, child) ==
    ParentInsertChildBefore(parent, child,
                            NextGroupElemOf(UpsertChildren(index, child), index))

UpsertParent(index, child) ==
    LET existing == children[index + 1]
        removed == IF existing # None THEN ParentRemoveChild(parent, existing) ELSE parent
    IN ParentInsertChildBefore(removed, child,
                               NextGroupElemOf(UpsertChildren(index, child), index))

upsert_only_child(index, child) ==
    /\ index \in Indices
    /\ children' = UpsertChildren(index, child)
    /\ parent' = UpsertParent(index, child)
    /\ ret' = RetBool(children[index + 1] # None)
    /\ Note(TRUE, {child}, None)
    /\ UNCHANGED <<last_is_dynamic, group_count>>

\* Mutant: the assertion never fails.
InsertAssertFails_Never(existed) == FALSE

\* assert!(!self.upsert_only_child(index, child))
InsertAssertFails(existed) == existed

\* insert_only_child: upsert_only_child runs to its end, then its result is asserted.
insert_only_child(index, child) ==
    /\ index \in Indices
    /\ children' = UpsertChildren(index, child)
    /\ parent' = UpsertParent(index, child)
    /\ ret' = IF InsertAssertFails(children[index + 1] # None) THEN RetPanic ELSE RetUnit
    /\ Note(FALSE, {child}, None)
    /\ UNCHANGED <<last_is_dynamic, group_count>>

\* Mutant: the slot is emptied and its occupant is left in the parent.
remove_child_SlotOnly(index) ==
    /\ index \in Indices
    /\ children' = [children EXCEPT ![index + 1] = None]
    /\ parent' = parent
    /\ ret' = RetUnit
    /\ Note(TRUE, {}, None)
    /\ UNCHANGED <<last_is_dynamic, group_count>>

remove_child(index) ==
    /\ index \in Indices
    /\ children' = [children EXCEPT ![index + 1] = None]
    /\ parent' = IF children[index + 1] # None
                 THEN ParentRemoveChild(parent, children[index + 1])
                 ELSE parent
    /\ ret' = RetUnit
    /\ Note(TRUE, {}, None)
    /\ UNCHANGED <<last_is_dynamic, group_count>>

\* Mutant: the child is also inserted into the parent, as upsert_only_child does.
set_first_child_Insert(index, child) ==
    /\ index \in Indices
    /\ children' = [children EXCEPT ![index + 1] = child]
    /\ parent' = ParentInsertChildBefore(parent, child, get_next_group_elem(index))
    /\ ret' = RetUnit
    /\ Note(FALSE, {child}, None)
    /\ UNCHANGED <<last_is_dynamic, group_count>>

set_first_child(index, child) ==
    /\ index \in Indices
    /\ children' = [children EXCEPT ![index + 1] = child]
    /\ ret' = RetUnit
    /\ Note(FALSE, {child}, None)
    /\ UNCHANGED <<last_is_dynamic, group_count, parent>>

clear_first_child(index) ==
    /\ index \in Indices
    /\ children' = [children EXCEPT ![index + 1] = None]
    /\ ret' = RetUnit
    /\ Note(FALSE, {}, None)
    /\ UNCHANGED <<last_is_dynamic, group_count, parent>>

shrink_to_fit ==
    /\ ret' = RetUnit
    /\ Note(FALSE, {}, None)
    /\ UNCHANGED <<children, last_is_dynamic, group_count, parent>>

NewGroup == new_group
AppendNewGroupSync == \E c \in Nodes : append_new_group_sync(c)
UpsertOnlyChild == \E i \in 0..(MaxGroups - 1), c \in Nodes : upsert_only_child(i, c)
RemoveChild == \E i \in 0..(MaxGroups - 1) : remove_child(i)
SetFirstChild == \E i \in 0..(MaxGroups - 1), c \in Nodes : set_first_child(i, c)
ClearFirstChild == \E i \in 0..(MaxGroups - 1) : clear_first_child(i)
ShrinkToFit == shrink_to_fit
InsertOnlyChild == \E index \in 0..(MaxGroups - 1), child \in Nodes : insert_only_child(index, child)

\* No assertion of the ChildGroups has failed.
CGRunning == ret.kind # "panic"

\* ------------------------------------------------------------------- Memo
TypePairs == {"T1", "T2"}
Keys == 1..MaxKey
Values == 1..MaxValue
MemoKeys == ({"T1"} \X Keys) \cup {<<"T2", 1>>}
\* Ages of a request, in cycles: 0 .. MaxAge (MaxAge standing for MaxAge or more), or
\* Never for a key that was not requested.
Never == MaxAge + 1

EmptyMap == [x \in {} |-> None]

MemoInit ==
    /\ current_memoized = EmptyMap
    /\ next_memoized = EmptyMap
    /\ memo_alive = TRUE
    /\ effect_queue = <<>>
    /\ memo_ret = None
    /\ value_fn_called = FALSE
    /\ age = [tk \in MemoKeys |-> Never]
    /\ req_value = [tk \in MemoKeys |-> None]
    /\ touched1 = FALSE
    /\ touched2 = FALSE
    /\ memo_panic = FALSE

MapInsert(m, k, v) == [x \in DOMAIN m \cup {k} |-> IF x = k THEN v ELSE m[x]]

MapRemove(m, k) == [x \in DOMAIN m \ {k} |-> m[x]]

\* any_map.entry(type_key).or_insert_with(|| Box::new(HashMap::new()))
memo_map(any_map, type_key) ==
    IF type_key \in DOMAIN any_map THEN any_map
    ELSE MapInsert(any_map, type_key, EmptyMap)

\* Whether an AnyMap holds a value under (type_key, key).
Holds(any_map, type_key, key) ==
    type_key \in DOMAIN any_map /\ key \in DOMAIN any_map[type_key]

\* Mutant: the entry of current is ignored and value_fn always runs.
CacheValue_AlwaysCompute(type_key, key, fresh) == fresh

\* current_memos.remove(&key).unwrap_or_else(value_fn); fresh is what value_fn returns
CacheValue(type_key, key, fresh) ==
    IF Holds(current_memoized, type_key, key)
    THEN current_memoized[type_key][key]
    ELSE fresh

\* Mutant: every cache call queues a swap, whether or not next is empty.
CacheQueue_Always == Append(effect_queue, "swap")

\* if memo.next_memoized.is_empty() { queue_effect(swap) }
CacheQueue ==
    IF DOMAIN next_memoized = {} THEN Append(effect_queue, "swap") ELSE effect_queue

\* Mutant: the entry of current is read with get instead of taken with remove.
cache_PeekCurrent(type_key, key, fresh) ==
    LET value == CacheValue(type_key, key, fresh)
        cur == memo_map(current_memoized, type_key)
        nxt == memo_map(next_memoized, type_key)
    IN /\ memo_alive
       /\ effect_queue' = CacheQueue
       /\ current_memoized' = cur
       /\ next_memoized' = [nxt EXCEPT ![type_key] = MapInsert(@, key, value)]
       /\ memo_ret' = value
       /\ value_fn_called' = ~Holds(current_memoized, type_key, key)
       /\ age' = [age EXCEPT ![<<type_key, key>>] = 0]
       /\ req_value' = [req_value EXCEPT ![<<type_key, key>>] = value]
       /\ UNCHANGED <<memo_alive, touched1, touched2, memo_panic>>

cache(type_key, key, fresh) ==
    LET value == CacheValue(type_key, key, fresh)
        cur == memo_map(current_memoized, type_key)
        nxt == memo_map(next_memoized, type_key)
    IN /\ memo_alive
       /\ effect_queue' = CacheQueue
       /\ current_memoized' = [cur EXCEPT ![type_key] = MapRemove(@, key)]
       /\ next_memoized' = [nxt EXCEPT ![type_key] = MapInsert(@, key, value)]
       /\ memo_ret' = value
       /\ value_fn_called' = ~Holds(current_memoized, type_key, key)
       /\ age' = [age EXCEPT ![<<type_key, key>>] = 0]
       /\ req_value' = [req_value EXCEPT ![<<type_key, key>>] = value]
       /\ UNCHANGED <<memo_alive, touched1, touched2, memo_panic>>

\* Mutant: the swap keeps the unconsumed entries of current beside those of next.
SwapEffect_Merge(data) ==
    IF data.alive
    THEN [data EXCEPT
            !.current = [tp \in DOMAIN data.current \cup DOMAIN data.next |->
                           IF tp \notin DOMAIN data.next THEN data.current[tp]
                           ELSE IF tp \notin DOMAIN data.current THEN data.next[tp]
                           ELSE [k \in DOMAIN data.current[tp] \cup DOMAIN data.next[tp] |->
                                   IF k \in DOMAIN data.next[tp] THEN data.next[tp][k]
                                   ELSE data.current[tp][k]]],
            !.next = EmptyMap]
    ELSE data

\* The queued closure: if let Some(memo) = memo_data.upgrade() {
\*     memo.current_memoized = mem::take(&mut memo.next_memoized) }
SwapEffect(data) ==
    IF data.alive
    THEN [data EXCEPT !.current = data.next, !.next = EmptyMap]
    ELSE data

RECURSIVE RunEffects(_, _)
RunEffects(queue, data) ==
    IF queue = <<>> THEN data
    ELSE RunEffects(Tail(queue), SwapEffect(data))

\* The end of an update cycle: the queued effects run in FIFO order.
FlushEffects ==
    LET data == RunEffects(effect_queue,
                           [alive |-> memo_alive, current |-> current_memoized,
                            next |-> next_memoized])
        grown(a) == IF a < MaxAge THEN a + 1 ELSE a
    IN /\ memo_alive
       /\ current_memoized' = data.current
       /\ next_memoized' = data.next
       /\ effect_queue' = <<>>
       /\ age' = [tk \in MemoKeys |-> grown(age[tk])]
       /\ req_value' = [tk \in MemoKeys |-> IF age[tk] = 0 THEN req_value[tk] ELSE None]
       /\ touched1' = (\E tk \in MemoKeys : age[tk] = 0)
       /\ touched2' = touched1
       /\ UNCHANGED <<memo_alive, memo_ret, value_fn_called, memo_panic>>

\* Mutant: the queued closure owns the MemoData (an Rc where the code takes
\* Rc::downgrade), so dropping the handles leaves the maps in place.
DropMemo_ClosureOwnsData ==
    /\ memo_alive
    /\ memo_alive' = FALSE
    /\ current_memoized' = IF effect_queue # <<>> THEN current_memoized ELSE EmptyMap
    /\ next_memoized' = IF effect_queue # <<>> THEN next_memoized ELSE EmptyMap
    /\ age' = [tk \in MemoKeys |-> Never]
    /\ req_value' = [tk \in MemoKeys |-> None]
    /\ touched1' = FALSE
    /\ touched2' = FALSE
    /\ UNCHANGED <<effect_queue, memo_ret, value_fn_called, memo_panic>>

\* The last Memo handle is dropped: MemoData is destroyed, queued closures remain.
DropMemo ==
    /\ memo_alive
    /\ memo_alive' = FALSE
    /\ current_memoized' = EmptyMap
    /\ next_memoized' = EmptyMap
    /\ age' = [tk \in MemoKeys |-> Never]
    /\ req_value' = [tk \in MemoKeys |-> None]
    /\ touched1' = FALSE
    /\ touched2' = FALSE
    /\ UNCHANGED <<effect_queue, memo_ret, value_fn_called, memo_panic>>

\* The end of a cycle after the Memo was dropped: the closures find no MemoData.
FlushAfterDrop ==
    LET data == RunEffects(effect_queue,
                           [alive |-> memo_alive, current |-> current_memoized,
                            next |-> next_memoized])
    IN /\ ~memo_alive
       /\ effect_queue # <<>>
       /\ current_memoized' = data.current
       /\ next_memoized' = data.next
       /\ effect_queue' = <<>>
       /\ UNCHANGED <<memo_alive, memo_ret, value_fn_called, age, req_value, touched1,
                      touched2, memo_panic>>

Cache == \E tk \in MemoKeys, v \in Values : cache(tk[1], tk[2], v)

\* A panic ends the program.
MemoRunning == ~memo_panic

\* Mutant: the RefMut of cache is released before value_fn runs.
Memo_borrow_mut_Released(borrowed) == "Ok"

\* self.0.borrow_mut() of cache, called while a RefMut of the same RefCell is alive
\* (borrowed) or not.
Memo_borrow_mut(borrowed) == IF borrowed THEN "BorrowMutError" ELSE "Ok"

\* cache(key, || self.cache(inner_key, || fresh)): a value_fn that memoizes on the same
\* Memo. With the key in current, value_fn is not called. Otherwise it runs under the
\* RefMut `memo` of the outer call, which lives to the end of that call: the outer call
\* has queued its swap and created the type's map in current, and the inner call
\* panics in borrow_mut.
cache_nested(type_key, key, inner_type_key, inner_key, fresh) ==
    LET hit == Holds(current_memoized, type_key, key)
        inner == CacheValue(inner_type_key, inner_key, fresh)
        cur1 == memo_map(current_memoized, type_key)
        cur2 == memo_map(cur1, inner_type_key)
        nxt1 == memo_map(next_memoized, inner_type_key)
        nxt2 == memo_map([nxt1 EXCEPT ![inner_type_key] = MapInsert(@, inner_key, inner)],
                         type_key)
    IN /\ memo_alive
       /\ ~hit
       /\ effect_queue' = CacheQueue
       /\ value_fn_called' = TRUE
       /\ IF Memo_borrow_mut(TRUE) = "BorrowMutError"
          THEN /\ memo_panic' = TRUE
               /\ current_memoized' = cur1
               /\ UNCHANGED <<next_memoized, memo_ret, age, req_value>>
          ELSE /\ memo_panic' = FALSE
               /\ current_memoized' = [cur2 EXCEPT ![inner_type_key] =
                                                      MapRemove(@, inner_key)]
               /\ next_memoized' = [nxt2 EXCEPT ![type_key] = MapInsert(@, key, inner)]
               /\ memo_ret' = inner
               /\ age' = [age EXCEPT ![<<type_key, key>>] = 0,
                                     ![<<inner_type_key, inner_key>>] = 0]
               /\ req_value' = [req_value EXCEPT ![<<type_key, key>>] = inner,
                                                 ![<<inner_type_key, inner_key>>] = inner]
       /\ UNCHANGED <<memo_alive, touched1, touched2>>

CacheNested ==
    \E tk \in MemoKeys, itk \in MemoKeys, v \in Values :
        cache_nested(tk[1], tk[2], itk[1], itk[2], v)

\* -------------------------------------------------------------- hydration
Tags == {"div", "span"}
Texts == {"old", "new"}

\* A node, described or live. `origin` tells a node that existed in the document
\* before hydration from one created by it.
TextNode(s, o) ==
    [kind |-> "text", tag |-> "", text |-> s, children |-> <<>>, origin |-> o, attr |-> ""]
ElemNode(tg, cs, o) ==
    [kind |-> "element", tag |-> tg, text |-> "", children |-> cs, origin |-> o, attr |-> ""]
NoNode ==
    [kind |-> "none", tag |-> "", text |-> "", children |-> <<>>, origin |-> "", attr |-> ""]

SeqsUpTo(S, n) == UNION {[1..m -> S] : m \in 0..n}

\* The shapes of the children: a text, an empty element, an element holding a text.
ChildShapes(o) ==
    {TextNode(s, o) : s \in Texts}
        \cup {ElemNode(tg, <<>>, o) : tg \in Tags}
        \cup {ElemNode("span", <<TextNode(s, o)>>, o) : s \in Texts}

Descriptions == {ElemNode("div", cs, "virt") : cs \in SeqsUpTo(ChildShapes("virt"), MaxChildren)}

LiveNodes ==
    {ElemNode(tg, cs, "existing") :
        tg \in Tags, cs \in SeqsUpTo(ChildShapes("existing"), MaxChildren)}

Stats(matched, mismatched, updated) ==
    [matched |-> matched, mismatched |-> mismatched, text_updated |-> updated]

AddStats(a, b) ==
    Stats(a.matched + b.matched, a.mismatched + b.mismatched,
          a.text_updated + b.text_updated)

HyIdle ==
    /\ hy_virt = NoNode
    /\ hy_child = NoNode
    /\ hy_state = "wet"
    /\ hy_wet = NoNode
    /\ hy_at_child = NoNode
    /\ hy_stats = Stats(0, 0, 0)
    /\ hy_by = "none"
    /\ hy_twin = NoNode
    /\ hy_touched = FALSE

HyInit ==
    /\ hy_virt \in Descriptions
    /\ hy_child \in LiveNodes
    /\ hy_state = "dry"
    /\ hy_wet = NoNode
    /\ hy_at_child = hy_child
    /\ hy_stats = Stats(0, 0, 0)
    /\ hy_by = "none"
    /\ hy_twin = NoNode
    /\ hy_touched = FALSE

\* The live node built from a description alone (WetElement::new / WetText::new).
RECURSIVE Fresh(_)
Fresh(v) ==
    [v EXCEPT !.origin = "created",
              !.children = [i \in 1..Len(v.children) |-> Fresh(v.children[i])]]

SameKind(v, live) ==
    v.kind = live.kind /\ (v.kind = "element" => v.tag = live.tag)

RECURSIVE DomNodeData_hydrate_child(_, _)
RECURSIVE HydrateChildren(_, _)

\* VText::hydrate_child: a live text is reused and its content overwritten when it
\* differs; any other live node is discarded and a fresh text takes its place.
VText_hydrate_child(v, live) ==
    IF SameKind(v, live)
    THEN [node |-> [live EXCEPT !.text = v.text],
          stats |-> Stats(1, 0, IF live.text # v.text THEN 1 ELSE 0)]
    ELSE [node |-> Fresh(v), stats |-> Stats(0, 1, 0)]

\* VElement::hydrate_child: a live element with the same tag is reused and its
\* children hydrated; any other live node is discarded and the element built fresh.
VElement_hydrate_child(v, live) ==
    IF SameKind(v, live)
    THEN LET r == HydrateChildren(v.children, live.children)
         IN [node |-> [live EXCEPT !.children = r.nodes, !.attr = v.attr],
             stats |-> AddStats(Stats(1, 0, 0), r.stats)]
    ELSE [node |-> Fresh(v), stats |-> Stats(0, 1, 0)]

\* The children of a reused element, position by position: a described child with no
\* live child left is built fresh; live children left over are removed.
HydrateChildren(vs, lives) ==
    IF vs = <<>> THEN [nodes |-> <<>>, stats |-> Stats(0, 0, 0)]
    ELSE IF lives = <<>>
    THEN LET rest == HydrateChildren(Tail(vs), <<>>)
         IN [nodes |-> <<Fresh(Head(vs))>> \o rest.nodes, stats |-> rest.stats]
    ELSE LET first == DomNodeData_hydrate_child(Head(vs), Head(lives))
             rest == HydrateChildren(Tail(vs), Tail(lives))
         IN [nodes |-> <<first.node>> \o rest.nodes,
             stats |-> AddStats(first.stats, rest.stats)]

\* Mutant: the element is made wet without looking at the live child (wet() in the
\* place of wet_with), so the live child stays where it is.
DomElement_hydrate_child_NoMatch(v, live) == [node |-> live, stats |-> Stats(0, 0, 0)]

\* self.borrow_mut().wet_with(|virt_elem| virt_elem.hydrate_child(parent, child))
DomElement_hydrate_child(v, live) == VElement_hydrate_child(v, live)

\* Mutant: as above, for a text.
DomText_hydrate_child_NoMatch(v, live) == [node |-> live, stats |-> Stats(0, 0, 0)]

\* self.borrow_mut().wet_with(|virt_text| virt_text.hydrate_child(parent, child))
DomText_hydrate_child(v, live) == VText_hydrate_child(v, live)

\* match &mut self.0 { Element(elem) => elem.hydrate_child(..), Text(text) => .. }
DomNodeData_hydrate_child(v, live) ==
    IF v.kind = "element"
    THEN DomElement_hydrate_child(v, live)
    ELSE DomText_hydrate_child(v, live)

\* Hydration::wet_with and Hydration::wet on a node that is wet already hand out the
\* wet representation it has.
AlreadyWet ==
    /\ hy_state = "wet"
    /\ UNCHANGED hyVars

\* DomNodeData::hydrate_child on the node: a dry node becomes wet, a wet one stays.
hydrate_child ==
    \/ /\ hy_state = "dry"
       /\ LET r == DomNodeData_hydrate_child(hy_virt, hy_child)
          IN /\ hy_wet' = r.node
             /\ hy_at_child' = r.node
             /\ hy_twin' = r.node
             /\ hy_stats' = r.stats
       /\ hy_state' = "wet"
       /\ hy_by' = "hydrate_child"
       /\ UNCHANGED <<hy_virt, hy_child, hy_touched>>
    \/ AlreadyWet

\* DomElement::eval_dom_element: self.wet() builds the live element from the
\* description; the document is not touched.
eval_dom_element ==
    \/ /\ hy_state = "dry"
       /\ hy_wet' = Fresh(hy_virt)
       /\ hy_twin' = Fresh(hy_virt)
       /\ hy_state' = "wet"
       /\ hy_by' = "eval_dom_element"
       /\ UNCHANGED <<hy_virt, hy_child, hy_at_child, hy_stats, hy_touched>>
    \/ AlreadyWet

\* IsDry for DomElement / DomText
is_dry == hy_state = "dry"

AttrValues == {"on"}

\* VElement::attribute and WetElement::attribute: the attribute takes the value.
VElement_attribute(elem, value) == [elem EXCEPT !.attr = value]
WetElement_attribute(elem, value) == [elem EXCEPT !.attr = value]

\* VElement::clear_children and WetElement::clear_children
VElement_clear_children(elem) == [elem EXCEPT !.children = <<>>]
WetElement_clear_children(elem) == [elem EXCEPT !.children = <<>>]

\* Mutant: the call goes to the description whatever the state of the node.
Hydration_map_AlwaysVirt(virt, wet) == [virt |-> virt, wet |-> hy_wet]

\* Hydration::map: the call goes to the description of a dry node and to the wet
\* representation of a wet one.
Hydration_map(virt, wet) ==
    IF is_dry THEN [virt |-> virt, wet |-> hy_wet] ELSE [virt |-> hy_virt, wet |-> wet]

\* A mutating call on the node, `r` its outcome on the node and `twin` its outcome on
\* the node that was wet from the start.
Mutate(r, twin) ==
    /\ hy_state \in {"dry", "wet"}
    /\ hy_virt' = r.virt
    /\ hy_wet' = r.wet
    /\ hy_at_child' = IF ~is_dry /\ hy_by = "hydrate_child" THEN r.wet ELSE hy_at_child
    /\ hy_twin' = IF is_dry THEN hy_twin ELSE twin
    /\ hy_touched' = ~is_dry
    /\ UNCHANGED <<hy_child, hy_state, hy_stats, hy_by>>

\* DomElement::attribute
attribute(value) ==
    Mutate(Hydration_map(VElement_attribute(hy_virt, value),
                         WetElement_attribute(hy_wet, value)),
           WetElement_attribute(hy_twin, value))

\* DomElement::clear_children
clear_children ==
    Mutate(Hydration_map(VElement_clear_children(hy_virt),
                         WetElement_clear_children(hy_wet)),
           WetElement_clear_children(hy_twin))

Attribute == \E value \in AttrValues : attribute(value)

\* Node<Dry>::hydrate_child: the body is todo!(), which panics.
Node_Dry_hydrate_child ==
    /\ hy_state = "dry"
    /\ hy_state' = "panicked"
    /\ hy_by' = "Node<Dry>::hydrate_child"
    /\ UNCHANGED <<hy_virt, hy_child, hy_wet, hy_at_child, hy_stats, hy_twin, hy_touched>>

\* ------------------------------------------------------------------ mount
MountIds == 1..MaxMountPoints

MountPoint(id) == [kind |-> "mount_point", n |-> id]
Element(n) == [kind |-> "element", n |-> n]

MountInit ==
    /\ document = [i \in MountIds |-> MountPoint(i)]
    /\ ELEMENTS = EmptyMap
    /\ ELEMENT_HANDLE_ID = 0
    /\ wet_mounted = EmptyMap
    /\ handles = EmptyMap
    /\ built = 0
    /\ mount_panic = None

\* base_document::get_element_by_id(id): mounted elements carry no id.
get_element_by_id(id) ==
    IF MountPoint(id) \in Range(document) THEN MountPoint(id) ELSE NoNode

\* ChildNode.replaceWith: nothing happens to a node that has no parent.
ReplaceWith(doc, old, new) ==
    IF old \notin Range(doc) THEN doc
    ELSE LET d == Without(doc, new)
         IN [i \in 1..Len(d) |-> IF d[i] = old THEN new ELSE d[i]]

Running == mount_panic = None

\* GenericElement::mount(&mut self, mount_point): the mount point is replaced by the
\* element's DOM node.
GenericElement_mount(doc, mount_point, element) == ReplaceWith(doc, mount_point, element)

\* wet_insert_mounted(id, element): the element is recorded under the mount point's id.
wet_insert_mounted(registry, id, element) == MapInsert(registry, id, element)

\* Mutant: the element is registered but appended to the document, the mount point
\* staying in place.
mount_Append(id) ==
    LET element == Element(built + 1)
    IN /\ Running /\ built < MaxMounts
       /\ get_element_by_id(id) # NoNode
       /\ built' = built + 1
       /\ document' = Append(document, element)
       /\ ELEMENT_HANDLE_ID' = ELEMENT_HANDLE_ID + 1
       /\ ELEMENTS' = MapInsert(ELEMENTS, ELEMENT_HANDLE_ID, element)
       /\ handles' = MapInsert(handles, ELEMENT_HANDLE_ID,
                               [mount_point |-> get_element_by_id(id), on_drop |-> "None"])
       /\ UNCHANGED <<wet_mounted, mount_panic>>

\* mount(id, element): mount_point(id); element.mount(&mount_point);
\* MountHandle::new(mount_point, element), which registers through insert_element.
mount(id) ==
    LET element == Element(built + 1)
        mount_point == get_element_by_id(id)
    IN /\ Running /\ built < MaxMounts
       /\ mount_point # NoNode
       /\ built' = built + 1
       /\ document' = GenericElement_mount(document, mount_point, element)
       /\ ELEMENT_HANDLE_ID' = ELEMENT_HANDLE_ID + 1
       /\ ELEMENTS' = MapInsert(ELEMENTS, ELEMENT_HANDLE_ID, element)
       /\ handles' = MapInsert(handles, ELEMENT_HANDLE_ID,
                               [mount_point |-> mount_point, on_drop |-> "None"])
       /\ UNCHANGED <<wet_mounted, mount_panic>>

\* Wet::mount(id, element): the mount point is replaced, then wet_insert_mounted.
Wet_mount(id) ==
    LET element == Element(built + 1)
        mount_point == get_element_by_id(id)
    IN /\ Running /\ built < MaxMounts
       /\ mount_point # NoNode
       /\ built' = built + 1
       /\ document' = ReplaceWith(document, mount_point, element)
       /\ wet_mounted' = wet_insert_mounted(wet_mounted, id, element)
       /\ UNCHANGED <<ELEMENTS, ELEMENT_HANDLE_ID, handles, mount_panic>>

\* Mutant: the element is registered before the mount point is looked up.
mount_missing_RegisterFirst(id) ==
    /\ Running /\ built < MaxMounts
    /\ get_element_by_id(id) = NoNode
    /\ built' = built + 1
    /\ mount_panic' = id
    /\ ELEMENT_HANDLE_ID' = ELEMENT_HANDLE_ID + 1
    /\ ELEMENTS' = MapInsert(ELEMENTS, ELEMENT_HANDLE_ID, Element(built + 1))
    /\ UNCHANGED <<document, wet_mounted, handles>>

\* mount_point(id) when no element has the id: panic!("DOM node id = '{id}' must exist"),
\* reached from mount and from Wet::mount before anything else is done.
mount_missing(id) ==
    /\ Running /\ built < MaxMounts
    /\ get_element_by_id(id) = NoNode
    /\ built' = built + 1
    /\ mount_panic' = id
    /\ UNCHANGED <<document, ELEMENTS, ELEMENT_HANDLE_ID, wet_mounted, handles>>

\* remove_element(id)
remove_element(h) == MapRemove(ELEMENTS, h)

\* impl Drop for MountHandle
DropDocument(h) ==
    IF handles[h].on_drop = "Unmount" /\ h \in DOMAIN ELEMENTS
    THEN ReplaceWith(document, ELEMENTS[h], handles[h].mount_point)
    ELSE document

\* Mutant: a drop with no drop action stops the element as well.
DropElements_Always(h) == remove_element(h)

DropElements(h) ==
    IF handles[h].on_drop = "None" THEN ELEMENTS ELSE remove_element(h)

drop(h) ==
    /\ Running /\ h \in DOMAIN handles
    /\ document' = DropDocument(h)
    /\ ELEMENTS' = DropElements(h)
    /\ handles' = MapRemove(handles, h)
    /\ UNCHANGED <<ELEMENT_HANDLE_ID, wet_mounted, built, mount_panic>>

stop_on_drop(h) ==
    /\ Running /\ h \in DOMAIN handles
    /\ handles' = [handles EXCEPT ![h].on_drop = "Stop"]
    /\ UNCHANGED <<document, ELEMENTS, ELEMENT_HANDLE_ID, wet_mounted, built, mount_panic>>

unmount_on_drop(h) ==
    /\ Running /\ h \in DOMAIN handles
    /\ handles' = [handles EXCEPT ![h].on_drop = "Unmount"]
    /\ UNCHANGED <<document, ELEMENTS, ELEMENT_HANDLE_ID, wet_mounted, built, mount_panic>>

\* Mutant: stop also puts the mount point back, as unmount does.
stop_RestoresMountPoint(h) ==
    /\ Running /\ h \in DOMAIN handles
    /\ document' = IF h \in DOMAIN ELEMENTS
                   THEN ReplaceWith(document, ELEMENTS[h], handles[h].mount_point)
                   ELSE document
    /\ ELEMENTS' = remove_element(h)
    /\ handles' = MapRemove(handles, h)
    /\ UNCHANGED <<ELEMENT_HANDLE_ID, wet_mounted, built, mount_panic>>

\* MountHandle::stop(self): stop_on_drop, then self is dropped.
stop(h) ==
    /\ Running /\ h \in DOMAIN handles
    /\ ELEMENTS' = remove_element(h)
    /\ handles' = MapRemove(handles, h)
    /\ UNCHANGED <<document, ELEMENT_HANDLE_ID, wet_mounted, built, mount_panic>>

\* Mutant: unmount drops the element from ELEMENTS and leaves the document alone.
unmount_NoRestore(h) ==
    /\ Running /\ h \in DOMAIN handles
    /\ ELEMENTS' = remove_element(h)
    /\ handles' = MapRemove(handles, h)
    /\ UNCHANGED <<document, ELEMENT_HANDLE_ID, wet_mounted, built, mount_panic>>

\* MountHandle::unmount(self): unmount_on_drop, then self is dropped.
unmount(h) ==
    /\ Running /\ h \in DOMAIN handles
    /\ document' = IF h \in DOMAIN ELEMENTS
                   THEN ReplaceWith(document, ELEMENTS[h], handles[h].mount_point)
                   ELSE document
    /\ ELEMENTS' = remove_element(h)
    /\ handles' = MapRemove(handles, h)
    /\ UNCHANGED <<ELEMENT_HANDLE_ID, wet_mounted, built, mount_panic>>

\* Mutant: ELEMENTS is emptied and the document left as it is.
remove_all_mounted_KeepDocument ==
    /\ Running
    /\ ELEMENTS' = EmptyMap
    /\ UNCHANGED <<document, ELEMENT_HANDLE_ID, wet_mounted, handles, built, mount_panic>>

\* remove_all_mounted: every element of ELEMENTS.take() is removed from the document.
remove_all_mounted ==
    /\ Running
    /\ document' = SelectSeq(document,
                             LAMBDA n : \A h \in DOMAIN ELEMENTS : ELEMENTS[h] # n)
    /\ ELEMENTS' = EmptyMap
    /\ UNCHANGED <<ELEMENT_HANDLE_ID, wet_mounted, handles, built, mount_panic>>

HandleIds == 0..(MaxMounts - 1)

Mount == \E id \in MountIds : mount(id)
WetMount == \E id \in MountIds : Wet_mount(id)
MountMissing == \E id \in MountIds : mount_missing(id)
DropHandle == \E h \in HandleIds : drop(h)
StopOnDrop == \E h \in HandleIds : stop_on_drop(h)
UnmountOnDrop == \E h \in HandleIds : unmount_on_drop(h)
Stop == \E h \in HandleIds : stop(h)
Unmount == \E h \in HandleIds : unmount(h)
RemoveAllMounted == remove_all_mounted

\* ------------------------------------------------------------ Hydro::mount
HydroInit == hydro = EmptyMap

\* The future of Hydro::mount owns the element and the id; MountHydro holds the
\* remote handle of the future.
HydroMounted(id) == [id |-> id, task |-> "pending", handle |-> TRUE, dry |-> TRUE]

\* <Hydro as Document>::mount: the future is spawned, nothing has run yet.
Hydro_mount(id) ==
    /\ Running /\ built < MaxMounts
    /\ built' = built + 1
    /\ hydro' = MapInsert(hydro, built + 1, HydroMounted(id))
    /\ UNCHANGED <<document, ELEMENTS, ELEMENT_HANDLE_ID, wet_mounted, handles, mount_panic>>

\* element.hydrate(&mount_point, &mut stats): every node of the element becomes wet
\* and the element stands in the document where the mount point stood.
GenericElement_hydrate(doc, mount_point, element) == ReplaceWith(doc, mount_point, element)

\* Mutant: the task sends its result before it has hydrated and registered.
HydroTaskBody_ReadyFirst(n) ==
    /\ hydro' = [hydro EXCEPT ![n].task = "done"]
    /\ UNCHANGED <<document, wet_mounted, mount_panic>>

\* The body of the future: mount_point(&id); element.hydrate(..);
\* wet_insert_mounted(&id, wet_element); stats. It has no await point.
HydroTaskBody(n) ==
    LET id == hydro[n].id
        mount_point == get_element_by_id(id)
    IN IF mount_point = NoNode
       THEN /\ mount_panic' = id
            /\ hydro' = [hydro EXCEPT ![n].task = "panicked"]
            /\ UNCHANGED <<document, wet_mounted>>
       ELSE /\ document' = GenericElement_hydrate(document, mount_point, Element(n))
            /\ wet_mounted' = wet_insert_mounted(wet_mounted, id, Element(n))
            /\ hydro' = [hydro EXCEPT ![n].task = "done", ![n].dry = FALSE]
            /\ UNCHANGED mount_panic

\* The executor polls the spawned future.
HydroTask(n) ==
    /\ Running /\ n \in DOMAIN hydro /\ hydro[n].task = "pending"
    /\ HydroTaskBody(n)
    /\ UNCHANGED <<ELEMENTS, ELEMENT_HANDLE_ID, handles, built>>

\* Mutant: dropping the handle leaves the task to run.
DropTask_KeepRunning(task) == task

\* Dropping a RemoteHandle cancels a future that has not completed.
DropTask(task) == IF task = "pending" THEN "cancelled" ELSE task

\* MountHydro(remote_handle) is dropped.
DropMountHydro(n) ==
    /\ Running /\ n \in DOMAIN hydro /\ hydro[n].handle
    /\ hydro' = [hydro EXCEPT ![n].handle = FALSE, ![n].task = DropTask(hydro[n].task)]
    /\ UNCHANGED mountVars

HydroElements == 1..MaxMounts

HydroMount == \E id \in MountIds : Hydro_mount(id)
RunHydroTask == \E n \in HydroElements : HydroTask(n)
DropHydro == \E n \in HydroElements : DropMountHydro(n)

\* ------------------------------------------------------------ head mounting
HeadIds == 1..MaxHeadIds

\* The content of one DocumentHead, and the ChildVecHandle that stands for it.
HeadContent(n) == [kind |-> "head_content", n |-> n]

HeadInit ==
    /\ has_head = TRUE
    /\ head_doc = <<>>
    /\ Wet_MOUNTED_IN_HEAD = EmptyMap
    /\ Hydro_MOUNTED_IN_HEAD = EmptyMap
    /\ head_tasks = EmptyMap
    /\ head_built = 0
    /\ head_ret = "none"
    /\ head_panic = None

\* The documents head mounting starts from: with or without a head element.
HeadStart ==
    /\ has_head \in BOOLEAN
    /\ head_doc = <<>>
    /\ Wet_MOUNTED_IN_HEAD = EmptyMap
    /\ Hydro_MOUNTED_IN_HEAD = EmptyMap
    /\ head_tasks = EmptyMap
    /\ head_built = 0
    /\ head_ret = "none"
    /\ head_panic = None

HeadRunning == head_panic = None

\* ChildVec::new(head_elem, 0).run(head.child_vec) on the live head: the content's
\* children become children of the head element.
ChildVec_run(doc, content) == Append(doc, content)

\* Mutant: the id is looked up first and an occupied id is left as it is.
insert_mounted_in_head_KeepExisting(mounted, id, child_vec) ==
    IF id \in DOMAIN mounted THEN mounted ELSE MapInsert(mounted, id, child_vec)

\* Mutant: a duplicate id passes.
InsertPanics_Never(mounted, id) == FALSE

\* insert_mounted_in_head: mounted.borrow_mut().insert(id.to_string(), child_vec),
\* which replaces a value already stored under the id and returns it ...
insert_mounted_in_head(mounted, id, child_vec) == MapInsert(mounted, id, child_vec)

\* ... and assert!(existing.is_none(), "Attempt to insert duplicate id ({id}) into head")
InsertPanics(mounted, id) == id \in DOMAIN mounted

\* <Wet as Document>::mount_in_head
Wet_mount_in_head(id) ==
    LET content == HeadContent(head_built + 1)
    IN /\ HeadRunning /\ head_built < MaxHeadMounts
       /\ head_built' = head_built + 1
       /\ IF ~has_head
          THEN /\ head_ret' = "HeadNotFound"
               /\ UNCHANGED <<head_doc, Wet_MOUNTED_IN_HEAD, head_panic>>
          ELSE /\ head_doc' = ChildVec_run(head_doc, content)
               /\ Wet_MOUNTED_IN_HEAD' = insert_mounted_in_head(Wet_MOUNTED_IN_HEAD, id, content)
               /\ IF InsertPanics(Wet_MOUNTED_IN_HEAD, id)
                  THEN head_panic' = id /\ head_ret' = "panic"
                  ELSE head_panic' = None /\ head_ret' = "Ok"
       /\ UNCHANGED <<has_head, Hydro_MOUNTED_IN_HEAD, head_tasks>>

\* <Hydro as Document>::mount_in_head: the content is run against a new virtual
\* head element, registered, and a task hydrating it is spawned.
Hydro_mount_in_head(id) ==
    LET content == HeadContent(head_built + 1)
    IN /\ HeadRunning /\ head_built < MaxHeadMounts
       /\ head_built' = head_built + 1
       /\ Hydro_MOUNTED_IN_HEAD' = insert_mounted_in_head(Hydro_MOUNTED_IN_HEAD, id, content)
       /\ IF InsertPanics(Hydro_MOUNTED_IN_HEAD, id)
          THEN head_panic' = id /\ head_ret' = "panic" /\ UNCHANGED head_tasks
          ELSE /\ head_panic' = None /\ head_ret' = "Ok"
               /\ head_tasks' = MapInsert(head_tasks, content.n, id)
       /\ UNCHANGED <<has_head, head_doc, Wet_MOUNTED_IN_HEAD>>

\* The spawned task: hydro_head_elem.hydrate_in_head(&id, &mut stats).
hydrate_in_head(doc, content) ==
    IF content \in Range(doc) THEN doc ELSE Append(doc, content)

HydroHeadTask(n) ==
    /\ HeadRunning /\ n \in DOMAIN head_tasks
    /\ head_doc' = IF has_head THEN hydrate_in_head(head_doc, HeadContent(n)) ELSE head_doc
    /\ head_tasks' = MapRemove(head_tasks, n)
    /\ UNCHANGED <<has_head, Wet_MOUNTED_IN_HEAD, Hydro_MOUNTED_IN_HEAD, head_built,
                   head_ret, head_panic>>

\* Mutant: dropping the handle also takes the id out of MOUNTED_IN_HEAD.
DropMountHydroHead_Unregisters(n) ==
    /\ HeadRunning /\ n \in DOMAIN head_tasks
    /\ head_tasks' = MapRemove(head_tasks, n)
    /\ Hydro_MOUNTED_IN_HEAD' = MapRemove(Hydro_MOUNTED_IN_HEAD, head_tasks[n])
    /\ UNCHANGED <<has_head, head_doc, Wet_MOUNTED_IN_HEAD, head_built, head_ret,
                   head_panic>>

\* MountHydroHead(remote_handle) dropped before the task ran: the task is cancelled.
DropMountHydroHead(n) ==
    /\ HeadRunning /\ n \in DOMAIN head_tasks
    /\ head_tasks' = MapRemove(head_tasks, n)
    /\ UNCHANGED <<has_head, head_doc, Wet_MOUNTED_IN_HEAD, Hydro_MOUNTED_IN_HEAD,
                   head_built, head_ret, head_panic>>

\* unmount_head(&MOUNTED_IN_HEAD): every registered content is taken out of the
\* registry and its children out of the head.
unmount_head(doc, mounted) ==
    SelectSeq(doc, LAMBDA c : \A id \in DOMAIN mounted : mounted[id] # c)

\* wet_unmount(): every element recorded by wet_insert_mounted is removed.
wet_unmount(doc, mounted) ==
    SelectSeq(doc, LAMBDA n : \A id \in DOMAIN mounted : mounted[id] # n)

\* <Wet as Document>::unmount_all
Wet_unmount_all ==
    /\ Running /\ HeadRunning
    /\ document' = wet_unmount(document, wet_mounted)
    /\ wet_mounted' = EmptyMap
    /\ head_doc' = unmount_head(head_doc, Wet_MOUNTED_IN_HEAD)
    /\ Wet_MOUNTED_IN_HEAD' = EmptyMap
    /\ UNCHANGED <<ELEMENTS, ELEMENT_HANDLE_ID, handles, built, mount_panic>>
    /\ UNCHANGED <<has_head, Hydro_MOUNTED_IN_HEAD, head_tasks, head_built, head_ret,
                   head_panic>>

\* <Hydro as Document>::unmount_all
Hydro_unmount_all ==
    /\ Running /\ HeadRunning
    /\ document' = wet_unmount(document, wet_mounted)
    /\ wet_mounted' = EmptyMap
    /\ head_doc' = unmount_head(head_doc, Hydro_MOUNTED_IN_HEAD)
    /\ Hydro_MOUNTED_IN_HEAD' = EmptyMap
    /\ UNCHANGED <<ELEMENTS, ELEMENT_HANDLE_ID, handles, built, mount_panic>>
    /\ UNCHANGED <<has_head, Wet_MOUNTED_IN_HEAD, head_tasks, head_built, head_ret,
                   head_panic>>

HeadContents == 1..MaxHeadMounts

WetMountInHead == \E id \in HeadIds : Wet_mount_in_head(id)
HydroMountInHead == \E id \in HeadIds : Hydro_mount_in_head(id)
RunHydroHeadTask == \E n \in HeadContents : HydroHeadTask(n)
DropHydroHead == \E n \in HeadContents : DropMountHydroHead(n)

\* --------------------------------------------------------- DomNodeData::is_same
SameInit ==
    /\ allocated = <<>>
    /\ handle_a = None
    /\ handle_b = None
    /\ same_ret = "none"

\* DomElement(Rc<RefCell<HydrationElement>>) / DomText(Rc<RefCell<HydrationText>>)
\* as a DomNodeData: the variant, and the Rc it holds.
DomNodeData(i) == [kind |-> allocated[i].kind, rc |-> i]

\* DomElement::new(tag): a new Rc
DomElement_new(tag) ==
    /\ Len(allocated) < MaxAlloc
    /\ allocated' = Append(allocated, [kind |-> "element", value |-> tag])
    /\ UNCHANGED <<handle_a, handle_b, same_ret>>

\* DomText::new(text): a new Rc
DomText_new(text) ==
    /\ Len(allocated) < MaxAlloc
    /\ allocated' = Append(allocated, [kind |-> "text", value |-> text])
    /\ UNCHANGED <<handle_a, handle_b, same_ret>>

\* Clone, From<DomElement>, From<DomText>: a handle to a node that exists
TakeHandles(i, j) ==
    /\ i \in 1..Len(allocated) /\ j \in 1..Len(allocated)
    /\ handle_a' = i
    /\ handle_b' = j
    /\ same_ret' = "none"
    /\ UNCHANGED allocated

\* Mutant: nodes are compared by variant and content.
is_same_ByValue(self, other) ==
    /\ self.kind = other.kind
    /\ allocated[self.rc].value = allocated[other.rc].value

\* DomNodeData::is_same
is_same(self, other) ==
    CASE self.kind = "element" /\ other.kind = "element" -> self.rc = other.rc
      [] self.kind = "text" /\ other.kind = "text" -> self.rc = other.rc
      [] OTHER -> FALSE

IsSame ==
    /\ handle_a # None /\ handle_b # None
    /\ same_ret' = IF is_same(DomNodeData(handle_a), DomNodeData(handle_b)) THEN "true" ELSE "false"
    /\ UNCHANGED <<allocated, handle_a, handle_b>>

NewElement == \E tag \in Tags : DomElement_new(tag)
NewText == \E text \in Texts : DomText_new(text)
Handles == \E i, j \in 1..MaxAlloc : TakeHandles(i, j)

\* ------------------------------------------------ StateSetter and UPDATE_QUEUE
Setters == 1..MaxSetters
NewValues == 1..MaxNewValue

\* StateSetter::updater: Option<Rc<dyn StateUpdater<T>>>
NoUpdater == [some |-> FALSE, state |-> 0]
SomeUpdater(s) == [some |-> TRUE, state |-> s]

\* One StateSetter value: its shared new_state cell and its own updater field.
StateSetter(s, updater) == [setter |-> s, updater |-> updater]

UpdInit ==
    /\ setters = 0
    /\ held = {}
    /\ new_state = [s \in Setters |-> None]
    /\ UPDATE_QUEUE = <<>>
    /\ frame_requested = 0
    /\ applied = <<>>
    /\ update_panic = "none"

UpdRunning == update_panic = "none"

\* state(init, generate): StateSetter::default() has no updater; generate is given
\* setter.clone(); only afterwards is the updater stored, in the local `setter`,
\* which is dropped when state returns.
state ==
    /\ UpdRunning /\ setters < MaxSetters
    /\ setters' = setters + 1
    /\ held' = held \cup {StateSetter(setters + 1, NoUpdater)}
    /\ UNCHANGED <<new_state, UPDATE_QUEUE, frame_requested, applied, update_panic>>

\* StateSetter::set
set(self, new_value) ==
    /\ UpdRunning /\ self \in held
    /\ new_state' = [new_state EXCEPT ![self.setter] = new_value]
    /\ IF new_state[self.setter] = None
       THEN /\ UPDATE_QUEUE' = Append(UPDATE_QUEUE, self)
            /\ frame_requested' = IF Len(UPDATE_QUEUE') = 1 THEN frame_requested + 1
                                  ELSE frame_requested
       ELSE UNCHANGED <<UPDATE_QUEUE, frame_requested>>
    /\ UNCHANGED <<setters, held, applied, update_panic>>

\* <StateSetter as AnyStateUpdater>::update on the state st of the program:
\* self.new_state.take().unwrap(), then self.updater.as_ref().unwrap()
\* .update(new_value, self.clone()), which hands the clone to generate.
\* st.generate_sets is the value generate passes to set on that clone before it
\* returns (None if it does not call set): set stores the value and, the cell having
\* been emptied by take, goes on to UPDATE_QUEUE.borrow_mut(), which panics under the
\* RefMut of process_updates.
StateSetter_update(self, st) ==
    IF st.new_state[self.setter] = None
    THEN [st EXCEPT !.update_panic = "new_state"]
    ELSE LET taken == [st.new_state EXCEPT ![self.setter] = None]
         IN IF ~self.updater.some
            THEN [st EXCEPT !.new_state = taken, !.update_panic = "updater"]
            ELSE IF st.generate_sets # None
            THEN [st EXCEPT !.new_state = [taken EXCEPT ![self.setter] = st.generate_sets],
                            !.held = @ \cup {self},
                            !.update_panic = "borrowed"]
            ELSE [st EXCEPT !.new_state = taken,
                            !.applied = Append(@, <<self.setter, st.new_state[self.setter]>>),
                            !.held = @ \cup {self}]

\* for update in update_queue.drain(..) { update.update() }: a panic ends the loop.
RECURSIVE Drain(_, _)
Drain(queue, st) ==
    IF queue = <<>> \/ st.update_panic # "none" THEN st
    ELSE Drain(Tail(queue), StateSetter_update(Head(queue), st))

\* process_updates, called by the animation frame request_process_updates asked for.
\* drain(..) leaves the Vec empty whether or not the loop is completed.
process_updates ==
    \E generate_sets \in NewValues \cup {None} :
    LET st == Drain(UPDATE_QUEUE, [new_state |-> new_state, applied |-> applied,
                                   held |-> held, update_panic |-> update_panic,
                                   generate_sets |-> generate_sets])
    IN /\ UpdRunning /\ frame_requested > 0
       /\ frame_requested' = frame_requested - 1
       /\ UPDATE_QUEUE' = <<>>
       /\ new_state' = st.new_state
       /\ applied' = st.applied
       /\ held' = st.held
       /\ update_panic' = st.update_panic
       /\ UNCHANGED setters

Set == \E s \in Setters, some \in BOOLEAN, v \in NewValues :
           set(StateSetter(s, IF some THEN SomeUpdater(s) ELSE NoUpdater), v)

\* ======================================================== ChildGroups claims
SlotOccupants == SelectSeq(children, LAMBDA c : c # None)

ParentInSlotOrder ==
    /\ SelectSeq(parent, LAMBDA n : n \in Range(children)) = SlotOccupants
    /\ Range(parent) = Range(children) \ {None}

ScenarioA ==
    \A x, y \in Nodes :
        /\ (slot_calls /\ children = <<None, None, None>> /\ upsert_only_child(1, x))
               => parent' = <<x>>
        /\ (slot_calls /\ children = <<None, x, None>> /\ x # y /\ upsert_only_child(0, y))
               => parent' = <<y, x>>

\* C1: after every call of a sequence of new_group, upsert_only_child (each with a
\* node not passed before) and remove_child, the parent's children are the occupants
\* of the slots in ascending slot order; with groups 0,1,2, upsert_only_child(1, X)
\* makes X the only child and a following upsert_only_child(0, Y) gives [Y, X].
C1_SlotOrder == [](slot_calls => ParentInSlotOrder) /\ [][ScenarioA]_vars

\* Slot 0 was filled after slot 1 and the parent shows them in slot order.
C1_Witness ==
    /\ slot_calls /\ Len(children) = 3 /\ ret = RetBool(FALSE)
    /\ children[1] # None /\ children[2] # None /\ children[3] = None
    /\ parent = <<children[1], children[2]>>
    /\ children[1] > children[2]

\* C2 as stated: after any upsert_only_child(i, c) slot i holds c and the previous
\* occupant of slot i is no longer a child of the parent.
C2_Original ==
    [][\A i \in 0..(MaxGroups - 1), c \in Nodes :
          upsert_only_child(i, c) =>
              /\ children'[i + 1] = c
              /\ children[i + 1] # None => children[i + 1] \notin Range(parent')]_vars

\* C2 amended: after any upsert_only_child(i, c) slot i holds c, and a previous
\* occupant of slot i other than c itself is no longer a child of the parent.
C2_UpsertReplaces ==
    [][\A i \in 0..(MaxGroups - 1), c \in Nodes :
          upsert_only_child(i, c) =>
              /\ children'[i + 1] = c
              /\ (children[i + 1] # None /\ children[i + 1] # c)
                     => children[i + 1] \notin Range(parent')]_vars

\* An upsert has replaced an occupant: the slot holds a node, the call reported an
\* existing node, and a node passed earlier is no longer a child.
C2_Witness ==
    /\ slot_calls /\ ret = RetBool(TRUE)
    /\ \E i \in 1..Len(children) : children[i] # None /\ children[i] \in Range(parent)
    /\ \E n \in used : n \notin Range(parent)

DistinctSyncCalls(n) ==
    /\ sync_log # Broken
    /\ Len(sync_log) = n
    /\ Cardinality(Range(sync_log)) = n

C18_InsertOnlyChild ==
    [][\A i \in 0..(MaxGroups - 1), c \in Nodes :
          insert_only_child(i, c) =>
              /\ (children[i + 1] # None) <=> (ret' = RetPanic)
              /\ children[i + 1] = None =>
                     /\ ret' = RetUnit
                     /\ children'[i + 1] = c
                     /\ \A j \in 1..Len(children) : j # i + 1 => children'[j] = children[j]
                     /\ parent' = ParentInsertChildBefore(parent, c, get_next_group_elem(i))
                     /\ UNCHANGED <<last_is_dynamic, group_count>>]_vars

\* insert_only_child was called on an occupied slot in front of another occupied
\* slot, and its assertion failed.
C18_Witness ==
    /\ ret = RetPanic /\ Len(children) = 2
    /\ children[1] # None /\ children[2] # None /\ children[1] # children[2]
    /\ parent = <<children[1], children[2]>>

\* C19: when an assertion fails the state is as it was before the call: after
\* insert_only_child(i, c) on an occupied slot, slot i holds its previous occupant
\* and the parent's children are unchanged; after mount_in_head with a registered
\* id the registry maps the id to the content mounted first.
C19_Original ==
    [][/\ \A i \in 0..(MaxGroups - 1), c \in Nodes :
             (insert_only_child(i, c) /\ children[i + 1] # None) =>
                 (children'[i + 1] = children[i + 1] /\ parent' = parent)
       /\ \A id \in HeadIds :
             /\ (Wet_mount_in_head(id) /\ id \in DOMAIN Wet_MOUNTED_IN_HEAD) =>
                    Wet_MOUNTED_IN_HEAD'[id] = Wet_MOUNTED_IN_HEAD[id]
             /\ (Hydro_mount_in_head(id) /\ id \in DOMAIN Hydro_MOUNTED_IN_HEAD) =>
                    Hydro_MOUNTED_IN_HEAD'[id] = Hydro_MOUNTED_IN_HEAD[id]]_vars

C26_RemoveChild ==
    [][\A i \in 0..(MaxGroups - 1) :
          remove_child(i) =>
              /\ Len(children') = Len(children)
              /\ children'[i + 1] = None
              /\ \A j \in 1..Len(children) : j # i + 1 => children'[j] = children[j]
              /\ UNCHANGED <<last_is_dynamic, group_count>>
              /\ IF children[i + 1] = None
                 THEN children' = children /\ parent' = parent
                 ELSE /\ children[i + 1] \notin Range(parent')
                      /\ parent' = SelectSeq(parent, LAMBDA n : n # children[i + 1])]_vars

\* remove_child has emptied slot 0 while slot 1 keeps its occupant, which is the one
\* child left in the parent.
C26_Witness ==
    /\ slot_calls /\ ret = RetUnit /\ Cardinality(used) = 2
    /\ Len(children) = 2 /\ children[1] = None /\ children[2] # None
    /\ parent = <<children[2]>>

\* C27: set_first_child(i, c) records c as the occupant of slot i and
\* clear_first_child(i) records slot i as empty; neither changes the parent's
\* children, another slot, the number of slots, the group count or the dynamic flag.
C27_FirstChildOnly ==
    [][\A i \in 0..(MaxGroups - 1) :
          /\ \A c \in Nodes :
                set_first_child(i, c) =>
                    /\ children' = [children EXCEPT ![i + 1] = c]
                    /\ UNCHANGED <<parent, group_count, last_is_dynamic>>
          /\ clear_first_child(i) =>
                /\ children' = [children EXCEPT ![i + 1] = None]
                /\ UNCHANGED <<parent, group_count, last_is_dynamic>>]_vars

\* The one slot records an occupant that was never put into the parent.
C27_Witness ==
    /\ group_count = 1 /\ Len(children) = 1 /\ last_is_dynamic
    /\ children[1] # None /\ parent = <<>> /\ ret = RetUnit

\* C28: get_next_group_elem(i) is the occupant of the lowest-indexed occupied slot
\* after slot i, empty slots being skipped; it is nothing when no slot after i is
\* occupied, in particular for the last slot, whatever slot i itself holds.
C28_NextGroupElem ==
    \A i \in Indices :
        LET later == {j \in Indices : j > i /\ children[j + 1] # None}
        IN /\ later = {} => get_next_group_elem(i) = None
           /\ later # {} =>
                  \E j \in later : /\ \A k \in later : j <= k
                                   /\ get_next_group_elem(i) = children[j + 1]
           /\ i = Len(children) - 1 => get_next_group_elem(i) = None

\* Slot 0 is occupied, slot 1 is empty and slot 2 holds another node: that node is
\* the next group element of slots 0 and 1, and slot 2 has none.
C28_Witness ==
    /\ Len(children) = 3
    /\ children[1] # None /\ children[2] = None /\ children[3] # None
    /\ children[1] # children[3]
    /\ get_next_group_elem(0) = children[3]
    /\ get_next_group_elem(1) = children[3]
    /\ get_next_group_elem(2) = None

\* C29: group_count counts the regions registered (it starts at zero, new_group and
\* append_new_group_sync each add one, no other call changes it), and
\* is_single_group is true exactly when that count is one; so no upsert, removal or
\* other call changes its value. While only append_new_group_sync was called, the
\* count is the number of those calls.
C29_IsSingleGroup ==
    [][/\ new_group => group_count' = group_count + 1
       /\ \A c \in Nodes : append_new_group_sync(c) => group_count' = group_count + 1
       /\ (~new_group /\ \A c \in Nodes : ~append_new_group_sync(c)) =>
              /\ group_count' = group_count
              /\ is_single_group' = is_single_group
       /\ is_single_group' <=> (group_count' = 1)
       /\ sync_log' # Broken => (is_single_group' <=> Len(sync_log') = 1)
       /\ is_single_group' => Len(children') <= 1]_vars

\* One region, registered by new_group, whose occupant was replaced by an upsert.
C29_Witness ==
    /\ is_single_group /\ Len(children) = 1 /\ ret = RetBool(TRUE)
    /\ children[1] # None /\ parent = <<children[1]>>

\* C30: new_group returns the number of slots there were before the call, adds one
\* empty slot at that index and marks the last group dynamic; every existing slot
\* keeps its index and occupant and the parent's children are unchanged.
C30_NewGroup ==
    [][new_group =>
          /\ ret' = RetIndex(Len(children))
          /\ Len(children') = Len(children) + 1
          /\ children'[ret'.index + 1] = None
          /\ \A j \in 1..Len(children) : children'[j] = children[j]
          /\ last_is_dynamic'
          /\ parent' = parent]_vars

\* new_group has returned index 1 as the third region: an earlier region has no
\* slot, slot 0 keeps its occupant and the new slot is empty.
C30_Witness ==
    /\ ret = RetIndex(1) /\ group_count = 3 /\ last_is_dynamic
    /\ Len(children) = 2 /\ children[1] # None /\ children[2] = None
    /\ Len(parent) = 2

\* The children of the groups rs, in the order of rs: the occupant of a group's slot,
\* or the child a group without a slot was appended with.
RECURSIVE InRegionOrder(_)
InRegionOrder(rs) ==
    IF rs = <<>> THEN <<>>
    ELSE LET r == Head(rs)
             own == IF r.slot = 0 THEN <<r.sync>>
                    ELSE IF children[r.slot] # None THEN <<children[r.slot]>>
                    ELSE <<>>
         IN own \o InRegionOrder(Tail(rs))

\* C34: after every call of a sequence of new_group, append_new_group_sync,
\* upsert_only_child and remove_child (distinct children, upserts and removals on
\* indices new_group returned), the parent's children are the children of the groups
\* in the order the groups were registered, those of synchronous appends that were
\* given no slot included; so an upserted child lies after every child of an earlier
\* group and before every child of a later one.
C34_RegistrationOrder ==
    regions # Untracked =>
        /\ Len(regions) = group_count
        /\ parent = InRegionOrder(regions)
        /\ \A g \in 1..Len(regions) :
              (regions[g].slot # 0 /\ regions[g].sync # None) =>
                  children[regions[g].slot] = regions[g].sync

\* A synchronous append without a slot, then a new_group, then a synchronous append
\* with a slot; the child upserted into the dynamic group lies between the two.
C34_Witness ==
    /\ regions # Untracked /\ Len(regions) = 3 /\ ret = RetBool(FALSE)
    /\ regions[1].slot = 0 /\ regions[2] = Region(1, None) /\ regions[3].slot = 2
    /\ children[1] # None
    /\ parent = <<regions[1].sync, children[1], regions[3].sync>>

\* =============================================================== Memo claims
\* C3: a key requested in the previous cycle (whose swap has run) is, at its first
\* request in this cycle, served with the value the earlier call stored and without
\* invoking value_fn; value_fn runs only when current holds no entry for the key.
C3_CrossCycleReuse ==
    [][\A tk \in MemoKeys, v \in Values :
          cache(tk[1], tk[2], v) =>
              /\ age[tk] = 1 => (memo_ret' = req_value[tk] /\ ~value_fn_called')
              /\ value_fn_called' => ~Holds(current_memoized, tk[1], tk[2])]_vars

\* A call in the cycle after a request was served from current.
C3_Witness ==
    /\ memo_alive /\ touched1 /\ ~value_fn_called /\ memo_ret # None
    /\ \E tk \in MemoKeys :
          /\ age[tk] = 0 /\ req_value[tk] = memo_ret
          /\ Holds(next_memoized, tk[1], tk[2])
          /\ ~Holds(current_memoized, tk[1], tk[2])

\* C4: the second cache call with a key inside one cycle does not invoke value_fn and
\* returns the value the first call returned (so value_fn runs at most once).
C4_Original ==
    [][\A tk \in MemoKeys, v \in Values :
          (cache(tk[1], tk[2], v) /\ age[tk] = 0) =>
              (~value_fn_called' /\ memo_ret' = req_value[tk])]_vars

CycleStart == memo_alive /\ \A tk \in MemoKeys : age[tk] # 0

Absent(tk) ==
    ~Holds(current_memoized, tk[1], tk[2]) /\ ~Holds(next_memoized, tk[1], tk[2])

\* C5 as stated: at the start of a cycle, a key requested in neither of the two
\* previous cycles is absent from the cache, whatever else was requested in them.
C5_Original == \A tk \in MemoKeys : (CycleStart /\ age[tk] \in 3..MaxAge) => Absent(tk)

\* C5 amended: at the start of a cycle, a key requested in neither of the two
\* previous cycles is absent from the cache provided cache was called, for some key,
\* in at least one of those two cycles (otherwise no swap was queued).
C5_NonCarryover ==
    \A tk \in MemoKeys :
        (CycleStart /\ age[tk] \in 3..MaxAge /\ (touched1 \/ touched2)) => Absent(tk)

\* A key was requested, then left out for two cycles of which one had requests.
C5_Witness ==
    /\ CycleStart /\ (touched1 \/ touched2)
    /\ \E tk \in MemoKeys : age[tk] \in 3..MaxAge /\ Absent(tk)
    /\ DOMAIN current_memoized # {}

\* cache was called in the cycle that is running.
TouchedNow == \E tk \in MemoKeys : age[tk] = 0

\* C21: the swap callback is queued by the first cache call of a cycle and by no
\* later call of that cycle, so that at the end of a cycle the queue holds one swap
\* if cache was called in it and none otherwise; when the swap runs, current becomes
\* what next held and next becomes empty.
C21_SwapQueuedOnce ==
    [][/\ \A tk \in MemoKeys, v \in Values :
             cache(tk[1], tk[2], v) =>
                 effect_queue' = IF TouchedNow THEN effect_queue
                                 ELSE Append(effect_queue, "swap")
       /\ FlushEffects =>
             /\ Len(effect_queue) = IF TouchedNow THEN 1 ELSE 0
             /\ TouchedNow => /\ current_memoized' = next_memoized
                              /\ next_memoized' = EmptyMap]_vars

\* A cycle with requests for two keys has ended: its one swap moved both to current.
C21_Witness ==
    /\ memo_alive /\ effect_queue = <<>> /\ next_memoized = EmptyMap
    /\ Cardinality({tk \in MemoKeys : age[tk] = 1}) >= 2
    /\ \A tk \in MemoKeys : age[tk] = 1 => Holds(current_memoized, tk[1], tk[2])

\* C22: when the last Memo handle is dropped while a swap is queued, the cache data
\* is destroyed at once (the queued callback does not keep it alive), and the callback,
\* when it runs, changes nothing: it finds no data, swaps nothing and completes,
\* leaving the queue empty.
C22_DroppedMemoSwapNoOp ==
    [][/\ (DropMemo /\ effect_queue # <<>>) =>
             /\ ~memo_alive'
             /\ current_memoized' = EmptyMap /\ next_memoized' = EmptyMap
             /\ effect_queue' = effect_queue
       /\ FlushAfterDrop =>
             /\ ~memo_alive'
             /\ current_memoized' = EmptyMap /\ next_memoized' = EmptyMap
             /\ effect_queue' = <<>>
             /\ UNCHANGED <<memo_ret, value_fn_called>>]_vars

\* The handles were dropped with values cached and a swap still queued.
C22_Witness ==
    /\ ~memo_alive /\ effect_queue # <<>> /\ memo_ret # None
    /\ current_memoized = EmptyMap /\ next_memoized = EmptyMap

\* Every entry current holds after the step was there, with the same value, before.
NoGainInCurrent ==
    \A tk \in MemoKeys :
        Holds(current_memoized', tk[1], tk[2]) =>
            /\ Holds(current_memoized, tk[1], tk[2])
            /\ current_memoized'[tk[1]][tk[2]] = current_memoized[tk[1]][tk[2]]

\* C31: right after cache(k, f) returned v, next holds v under k and current holds
\* no entry for k, whether v was taken from current or computed; and no step other
\* than the cycle-boundary swap gives current an entry it did not have.
C31_CacheMovesToNext ==
    [][/\ \A tk \in MemoKeys, v \in Values :
             cache(tk[1], tk[2], v) =>
                 /\ Holds(next_memoized', tk[1], tk[2])
                 /\ next_memoized'[tk[1]][tk[2]] = memo_ret'
                 /\ ~Holds(current_memoized', tk[1], tk[2])
       /\ ~FlushEffects => NoGainInCurrent]_vars

\* A key was served from current and moved to next, while another key of the
\* previous cycle is still held, unconsumed, in current.
C31_Witness ==
    /\ memo_alive /\ ~value_fn_called /\ memo_ret # None
    /\ \E tk, other \in MemoKeys :
          /\ tk # other
          /\ age[tk] = 0 /\ Holds(next_memoized, tk[1], tk[2])
          /\ next_memoized[tk[1]][tk[2]] = memo_ret
          /\ ~Holds(current_memoized, tk[1], tk[2])
          /\ age[other] = 1 /\ Holds(current_memoized, other[1], other[2])

\* ========================================================== hydration claims
\* A node without the marks of where it came from.
RECURSIVE Shape(_)
Shape(n) ==
    [n EXCEPT !.origin = "",
              !.children = [i \in 1..Len(n.children) |-> Shape(n.children[i])]]

\* The positions at which a live child stands against a described child.
Facing(v, live) ==
    {p \in 1..Len(v.children) : p <= Len(live.children)}

\* The number of positions, at any depth below two nodes of the same kind, where the
\* live child has another tag or kind than the described child.
RECURSIVE MismatchesBelow(_, _)
MismatchesBelow(v, live) ==
    LET count[p \in 0..Len(v.children)] ==
            IF p = 0 THEN 0
            ELSE count[p - 1] +
                 (IF p \notin Facing(v, live) THEN 0
                  ELSE IF ~SameKind(v.children[p], live.children[p]) THEN 1
                  ELSE MismatchesBelow(v.children[p], live.children[p]))
    IN count[Len(v.children)]

Hydrated == hy_state = "wet" /\ hy_by = "hydrate_child" /\ ~hy_touched

\* C6: whatever the live subtree and the description, hydration ends without
\* failing in a live tree that has exactly the described children in order, standing
\* in the document at the position of the live child.
C6_Original ==
    /\ hy_state # "panicked"
    /\ Hydrated => (Shape(hy_wet) = Shape(hy_virt) /\ hy_at_child = hy_wet)

ScenarioB_virt == ElemNode("div", <<TextNode("new", "virt")>>, "virt")
ScenarioB_live ==
    ElemNode("div", <<ElemNode("span", <<TextNode("old", "existing")>>, "existing")>>,
             "existing")

C10_MountReplaces ==
    [][\A id \in MountIds :
          LET at == IndexOf(document, MountPoint(id))
          IN /\ mount(id) =>
                  /\ document'[at] = Element(built')
                  /\ MountPoint(id) \notin Range(document')
                  /\ Len(document') = Len(document)
                  /\ ELEMENT_HANDLE_ID \in DOMAIN ELEMENTS'
                  /\ ELEMENTS'[ELEMENT_HANDLE_ID] = Element(built')
             /\ Wet_mount(id) =>
                  /\ document'[at] = Element(built')
                  /\ MountPoint(id) \notin Range(document')
                  /\ Len(document') = Len(document)
                  /\ id \in DOMAIN wet_mounted'
                  /\ wet_mounted'[id] = Element(built')]_vars

\* An element stands where mount point 1 stood and is registered.
C10_Witness ==
    /\ Running
    /\ document[1].kind = "element"
    /\ \E h \in DOMAIN ELEMENTS : ELEMENTS[h] = document[1]
    /\ MountPoint(1) \notin Range(document)

\* C11: a mount with an id that no element of the document has fails with a panic
\* naming that id, and neither the document nor a registry of mounted elements
\* changes: nothing is mounted, nothing is registered, no handle is returned.
C11_MountMissing ==
    /\ [](mount_panic # None => MountPoint(mount_panic) \notin Range(document))
    /\ [][\A id \in MountIds :
             mount_missing(id) =>
                 /\ mount_panic' = id
                 /\ UNCHANGED <<document, ELEMENTS, wet_mounted, handles>>]_vars

\* A mount failed on an id whose mount point an earlier mount had replaced.
C11_Witness ==
    /\ mount_panic # None
    /\ MountPoint(mount_panic) \notin Range(document)
    /\ \E i \in 1..Len(document) : document[i].kind = "element"
    /\ built >= 2

\* C12: unmount on the handle of an element that is still mounted puts the original
\* mount point where the element stood and takes the element out of ELEMENTS, so
\* that a mount with the same id finds the mount point again; ELEMENTS and the
\* handle end as after stop, the document as after replacing the element by the
\* mount point.
C12_UnmountRoundTrip ==
    [][\A h \in HandleIds :
          (unmount(h) /\ h \in DOMAIN ELEMENTS) =>
              LET e == ELEMENTS[h]
                  mp == handles[h].mount_point
              IN /\ e \in Range(document)
                 /\ document'[IndexOf(document, e)] = mp
                 /\ e \notin Range(document')
                 /\ Len(document') = Len(document)
                 /\ h \notin DOMAIN ELEMENTS'
                 /\ \A g \in DOMAIN ELEMENTS' : ELEMENTS'[g] # e
                 /\ ELEMENTS' = remove_element(h)
                 /\ h \notin DOMAIN handles'
                 /\ document' = ReplaceWith(document, e, mp)
                 /\ mp \in Range(document')]_vars

\* Two mounts were unmounted again: every mount point stands where it stood and
\* nothing is registered.
C12_Witness ==
    /\ Running
    /\ ELEMENT_HANDLE_ID = 2 /\ built = 2
    /\ document = [i \in MountIds |-> MountPoint(i)]
    /\ ELEMENTS = EmptyMap /\ handles = EmptyMap

\* C32: stop takes the handle's element out of ELEMENTS and leaves the document as it
\* is (the element stays, the mount point is not put back), whatever on_drop was
\* before; stop_on_drop and unmount_on_drop each overwrite on_drop, so the drop does
\* what the one called last asked for.
C32_StopKeepsDocument ==
    [][\A h \in HandleIds :
          /\ stop(h) =>
                /\ h \notin DOMAIN ELEMENTS'
                /\ \A g \in DOMAIN ELEMENTS : g # h =>
                       (g \in DOMAIN ELEMENTS' /\ ELEMENTS'[g] = ELEMENTS[g])
                /\ document' = document
          /\ stop_on_drop(h) => handles'[h].on_drop = "Stop"
          /\ unmount_on_drop(h) => handles'[h].on_drop = "Unmount"
          /\ (drop(h) /\ handles[h].on_drop = "Stop") =>
                (h \notin DOMAIN ELEMENTS' /\ document' = document)
          /\ (drop(h) /\ handles[h].on_drop = "Unmount" /\ h \in DOMAIN ELEMENTS) =>
                /\ h \notin DOMAIN ELEMENTS'
                /\ ELEMENTS[h] \notin Range(document')
                /\ (ELEMENTS[h] \in Range(document)) =>
                       handles[h].mount_point \in Range(document')]_vars

\* Both elements were mounted; the first was stopped: it is in the document in
\* place of its mount point and no longer registered, the second still is.
C32_Witness ==
    /\ Running /\ built = 2 /\ ELEMENT_HANDLE_ID = 2
    /\ DOMAIN ELEMENTS = {1} /\ DOMAIN handles = {1}
    /\ Element(1) \in Range(document) /\ Element(2) \in Range(document)
    /\ \A id \in MountIds : MountPoint(id) \notin Range(document)

\* C33: dropping a MountHandle whose on_drop was never set (none of stop, unmount,
\* stop_on_drop and unmount_on_drop was called on it) changes neither the document
\* nor the registry: the element stays in the document and stays registered.
C33_PlainDropKeepsMount ==
    [][\A h \in HandleIds :
          (drop(h) /\ handles[h].on_drop = "None") =>
              /\ document' = document
              /\ ELEMENTS' = ELEMENTS
              /\ (h \in DOMAIN ELEMENTS /\ ELEMENTS[h] \in Range(document)) =>
                     (h \in DOMAIN ELEMENTS' /\ ELEMENTS'[h] \in Range(document'))]_vars

\* The handle of the one mounted element was discarded: the element is still in the
\* document, in place of its mount point, and still registered.
C33_Witness ==
    /\ Running /\ built = 1 /\ handles = EmptyMap
    /\ DOMAIN ELEMENTS = {0} /\ ELEMENTS[0] = Element(1)
    /\ Element(1) \in Range(document) /\ Len(document) = MaxMountPoints

\* ====================================================== head mounting claims
\* C13 as stated: under Wet and under Hydro, mount_in_head with an id registered for
\* mounted head content fails the duplicate-id assertion, and with an id that is
\* not registered it succeeds and registers the id.
C13_Original ==
    [][\A id \in HeadIds :
          /\ Wet_mount_in_head(id) =>
                IF id \in DOMAIN Wet_MOUNTED_IN_HEAD
                THEN head_panic' = id
                ELSE /\ head_ret' = "Ok"
                     /\ id \in DOMAIN Wet_MOUNTED_IN_HEAD'
          /\ Hydro_mount_in_head(id) =>
                IF id \in DOMAIN Hydro_MOUNTED_IN_HEAD
                THEN head_panic' = id
                ELSE /\ head_ret' = "Ok"
                     /\ id \in DOMAIN Hydro_MOUNTED_IN_HEAD']_vars

\* C13 amended: as stated, except that Wet's mount_in_head in a document without a
\* head element returns HeadNotFound, registers nothing and fails no assertion.
C13_DuplicateHeadId ==
    [][\A id \in HeadIds :
          /\ (Wet_mount_in_head(id) /\ has_head) =>
                IF id \in DOMAIN Wet_MOUNTED_IN_HEAD
                THEN head_panic' = id /\ head_ret' = "panic"
                ELSE /\ head_ret' = "Ok" /\ head_panic' = None
                     /\ id \in DOMAIN Wet_MOUNTED_IN_HEAD'
                     /\ Wet_MOUNTED_IN_HEAD'[id] = HeadContent(head_built')
          /\ (Wet_mount_in_head(id) /\ ~has_head) =>
                /\ head_ret' = "HeadNotFound" /\ head_panic' = None
                /\ UNCHANGED <<Wet_MOUNTED_IN_HEAD, head_doc>>
          /\ Hydro_mount_in_head(id) =>
                IF id \in DOMAIN Hydro_MOUNTED_IN_HEAD
                THEN head_panic' = id /\ head_ret' = "panic"
                ELSE /\ head_ret' = "Ok" /\ head_panic' = None
                     /\ id \in DOMAIN Hydro_MOUNTED_IN_HEAD'
                     /\ Hydro_MOUNTED_IN_HEAD'[id] = HeadContent(head_built')]_vars

\* Head content was mounted under both strategies and a further mount_in_head with
\* an id in use failed the assertion.
C13_Witness ==
    /\ has_head /\ head_panic # None /\ head_ret = "panic"
    /\ DOMAIN Wet_MOUNTED_IN_HEAD # {} /\ DOMAIN Hydro_MOUNTED_IN_HEAD # {}
    /\ head_built = 3

\* C16: after remove_all_mounted ELEMENTS is empty and every element it held is out
\* of the document, while no mount point has come back; unmounting or dropping an
\* outstanding MountHandle afterwards changes neither the document nor ELEMENTS.
C16_RemoveAllMounted ==
    [][/\ remove_all_mounted =>
             /\ ELEMENTS' = EmptyMap
             /\ \A h \in DOMAIN ELEMENTS : ELEMENTS[h] \notin Range(document')
             /\ \A h \in DOMAIN handles : handles[h].mount_point \notin Range(document')
             /\ document' = SelectSeq(document,
                                      LAMBDA n : n \in Range(document) /\
                                                 \A h \in DOMAIN ELEMENTS : ELEMENTS[h] # n)
       /\ \A h \in HandleIds :
             ((unmount(h) \/ drop(h)) /\ h \notin DOMAIN ELEMENTS) =>
                 /\ UNCHANGED <<document, ELEMENTS>>
                 /\ handles[h].mount_point \notin Range(document')]_vars

\* Elements were mounted, all removed by remove_all_mounted, and the handles used up:
\* the document has lost the mount points and holds no element.
C16_Witness ==
    /\ Running
    /\ ELEMENTS = EmptyMap /\ handles = EmptyMap /\ ELEMENT_HANDLE_ID = 2
    /\ wet_mounted = EmptyMap /\ hydro = EmptyMap
    /\ Len(document) = MaxMountPoints - 2
    /\ \A i \in 1..Len(document) : document[i].kind = "mount_point"

\* C24 as stated: mount_in_head into a document that has no head element returns
\* HeadNotFound without panicking, under Wet and under Hydro, and registers nothing
\* under the id.
C24_Original ==
    [][\A id \in HeadIds :
          /\ (Wet_mount_in_head(id) /\ ~has_head) =>
                 /\ head_ret' = "HeadNotFound" /\ head_panic' = None
                 /\ Wet_MOUNTED_IN_HEAD' = Wet_MOUNTED_IN_HEAD
          /\ (Hydro_mount_in_head(id) /\ ~has_head) =>
                 /\ head_ret' = "HeadNotFound" /\ head_panic' = None
                 /\ Hydro_MOUNTED_IN_HEAD' = Hydro_MOUNTED_IN_HEAD]_vars

\* C35: Hydro::mount_in_head registers the id in the call itself, with the hydration
\* task still to run and the head untouched; dropping the handle before the task runs
\* removes the task and leaves the registry as it is; no step but unmount_all takes
\* an id out of the registry, and a mount_in_head with a registered id fails the
\* duplicate-id assertion.
C35_HeadIdStaysRegistered ==
    [][/\ \A id \in HeadIds :
             /\ (Hydro_mount_in_head(id) /\ id \notin DOMAIN Hydro_MOUNTED_IN_HEAD) =>
                    /\ id \in DOMAIN Hydro_MOUNTED_IN_HEAD'
                    /\ \E n \in DOMAIN head_tasks' : n \notin DOMAIN head_tasks
                                                      /\ head_tasks'[n] = id
                    /\ head_doc' = head_doc /\ head_ret' = "Ok"
             /\ (Hydro_mount_in_head(id) /\ id \in DOMAIN Hydro_MOUNTED_IN_HEAD) =>
                    (head_panic' = id /\ head_ret' = "panic")
       /\ \A n \in HeadContents :
             DropMountHydroHead(n) =>
                 /\ n \notin DOMAIN head_tasks'
                 /\ head_doc' = head_doc
                 /\ Hydro_MOUNTED_IN_HEAD' = Hydro_MOUNTED_IN_HEAD
       /\ ~Hydro_unmount_all =>
              DOMAIN Hydro_MOUNTED_IN_HEAD \subseteq DOMAIN Hydro_MOUNTED_IN_HEAD'
       /\ Hydro_unmount_all => Hydro_MOUNTED_IN_HEAD' = EmptyMap]_vars

\* The handle of a head mount was dropped before its task ran (nothing reached the
\* head, no task is left), and a second mount_in_head with the id failed.
C35_Witness ==
    /\ has_head /\ head_doc = <<>> /\ head_tasks = EmptyMap
    /\ Wet_MOUNTED_IN_HEAD = EmptyMap /\ head_built = 2
    /\ head_ret = "panic" /\ head_panic \in DOMAIN Hydro_MOUNTED_IN_HEAD

\* ======================================================= Hydro::mount claims
Registered(n) == \E id \in DOMAIN wet_mounted : wet_mounted[id] = Element(n)

\* C14: dropping the handle of a Hydro::mount whose task has not run cancels the
\* task for good: the element is never hydrated, never stands in the document and is
\* never registered, and nothing holds it any more; a drop, before or after the
\* task ran, changes neither the document nor the registries.
C14_DropCancels ==
    /\ [](\A n \in DOMAIN hydro :
             hydro[n].task = "cancelled" =>
                 /\ hydro[n].dry /\ ~hydro[n].handle
                 /\ Element(n) \notin Range(document)
                 /\ ~Registered(n))
    /\ [][\A n \in HydroElements :
             /\ (DropMountHydro(n) /\ hydro[n].task = "pending") =>
                    hydro'[n].task = "cancelled"
             /\ DropMountHydro(n) => UNCHANGED <<document, wet_mounted, ELEMENTS>>
             /\ (n \in DOMAIN hydro /\ hydro[n].task = "cancelled") =>
                    hydro'[n].task = "cancelled"]_vars

\* One handle was dropped after its element was hydrated, which stays in the
\* document, and another while its task was pending.
C14_Witness ==
    /\ Running
    /\ \E n, m \in DOMAIN hydro :
          /\ hydro[n].task = "cancelled"
          /\ hydro[m].task = "done" /\ ~hydro[m].handle
          /\ Element(m) \in Range(document) /\ Registered(m)

\* C15: the result of a Hydro::mount is ready only once the element is hydrated
\* (no node of it dry), stands in the document and is registered: the step that
\* makes the result ready has done all three, and no ready element is dry.
C15_ReadyAfterHydration ==
    /\ [](\A n \in DOMAIN hydro : hydro[n].task = "done" => ~hydro[n].dry)
    /\ [][\A n \in HydroElements :
             (n \in DOMAIN hydro /\ hydro[n].task # "done" /\ hydro'[n].task = "done") =>
                 /\ ~hydro'[n].dry
                 /\ Element(n) \in Range(document')
                 /\ MountPoint(hydro[n].id) \notin Range(document')
                 /\ hydro[n].id \in DOMAIN wet_mounted'
                 /\ wet_mounted'[hydro[n].id] = Element(n)]_vars

\* A result is ready and its handle still held.
C15_Witness ==
    /\ Running
    /\ \E n \in DOMAIN hydro :
          /\ hydro[n].task = "done" /\ hydro[n].handle /\ ~hydro[n].dry
          /\ Element(n) \in Range(document) /\ Registered(n)

\* ============================================================ is_same claims
\* C20: is_same(a, b) holds exactly when a and b are handles to one representation;
\* it is reflexive and symmetric, two nodes created apart are not the same even with
\* equal tag or text, and an element is never the same as a text.
C20_IsSame ==
    /\ \A i, j \in 1..Len(allocated) :
          LET a == DomNodeData(i)
              b == DomNodeData(j)
          IN /\ is_same(a, b) <=> (i = j)
             /\ is_same(a, a)
             /\ is_same(a, b) <=> is_same(b, a)
             /\ (i # j /\ allocated[i] = allocated[j]) => ~is_same(a, b)
             /\ a.kind # b.kind => ~is_same(a, b)
    /\ same_ret = "true" => handle_a = handle_b
    /\ same_ret = "false" => handle_a # handle_b

\* Two nodes with the same tag were created apart and is_same on them returned false.
C20_Witness ==
    /\ same_ret = "false" /\ handle_a # handle_b
    /\ allocated[handle_a] = allocated[handle_b]
    /\ \E i, j \in 1..Len(allocated) : allocated[i].kind # allocated[j].kind

\* C36: cache keeps the RefMut of the Memo's data for the whole call, value_fn
\* included: a cache call whose value_fn runs and calls cache on the same Memo panics on
\* the second borrow_mut; it returns no value and memoizes nothing.
C36_NestedCachePanics ==
    [][\A tk \in MemoKeys, itk \in MemoKeys, v \in Values :
           cache_nested(tk[1], tk[2], itk[1], itk[2], v) =>
               /\ memo_panic'
               /\ memo_ret' = memo_ret
               /\ next_memoized' = next_memoized
               /\ ~Holds(current_memoized', tk[1], tk[2])]_vars

\* A nested cache call panicked after earlier calls had returned values.
C36_Witness ==
    /\ memo_panic /\ value_fn_called
    /\ memo_ret # None
    /\ DOMAIN next_memoized # {}

\* ======================================================== update queue claims
\* The updates a flush is to apply: the queued setters with their pending values,
\* in queue order.
Pending == [i \in 1..Len(UPDATE_QUEUE) |->
              <<UPDATE_QUEUE[i].setter, new_state[UPDATE_QUEUE[i].setter]>>]

\* C23 as stated: process_updates applies the queued updates in FIFO order (the
\* order in which their setters were first set since the previous flush), goes over
\* the whole queue before it returns, and leaves the queue empty.
C23_Original ==
    [][process_updates =>
          /\ applied' = applied \o Pending
          /\ update_panic' = "none"
          /\ UPDATE_QUEUE' = <<>>]_vars

\* No state cell has two entries in the update queue.
OneEntryPerCell ==
    \A i, j \in 1..Len(UPDATE_QUEUE) :
        UPDATE_QUEUE[i].setter = UPDATE_QUEUE[j].setter => i = j

\* set stores its argument in the cell, whatever the cell held.
SetKeepsLast ==
    \A self \in held, v \in NewValues : set(self, v) => new_state'[self.setter] = v

\* C37 as stated: between two flushes a state cell has at most one entry in the
\* update queue however often it is set, the cell holds the last value passed to set
\* when the flush takes it, and the flush leaves the cell of every queued entry empty
\* (so that the next set queues again).
C37_Original ==
    /\ []OneEntryPerCell
    /\ [][/\ SetKeepsLast
          /\ process_updates =>
                 \A i \in 1..Len(UPDATE_QUEUE) :
                     new_state'[UPDATE_QUEUE[i].setter] = None]_vars

\* A set requests an animation frame exactly when it takes the queue from empty to
\* one entry.
FrameOnFirstEntry ==
    \A self \in held, v \in NewValues :
        set(self, v) =>
            /\ (Len(UPDATE_QUEUE) = 0 /\ Len(UPDATE_QUEUE') = 1)
                   => frame_requested' = frame_requested + 1
            /\ ~(Len(UPDATE_QUEUE) = 0 /\ Len(UPDATE_QUEUE') = 1)
                   => frame_requested' = frame_requested

\* While the queue is non-empty exactly one flush is pending.
OneFlushPending == UPDATE_QUEUE # <<>> => frame_requested = 1

\* The update of cell s was handed to its State (generate ran on the value).
Processed(s) == \E i \in 1..Len(applied) : applied[i][1] = s

\* C38 as stated: a frame is requested exactly by the set that takes the queue from
\* empty to one entry, so one flush is pending whenever the queue is non-empty, and
\* every queued update is eventually processed.
C38_Original ==
    /\ [][FrameOnFirstEntry]_vars
    /\ []OneFlushPending
    /\ \A s \in Setters :
           (\E i \in 1..Len(UPDATE_QUEUE) : UPDATE_QUEUE[i].setter = s) ~> Processed(s)

C40_Original ==
    /\ \A i \in 1..Len(UPDATE_QUEUE) :
           /\ new_state[UPDATE_QUEUE[i].setter] # None
           /\ UPDATE_QUEUE[i].updater.some
    /\ update_panic = "none"

\* ============================================================ specifications
Init == CGInit /\ MemoInit /\ HyIdle /\ MountInit /\ HeadInit /\ HydroInit /\ SameInit /\ UpdInit

\* ChildGroups
Next ==
    \/ CGRunning /\ NewGroup /\ UNCHANGED <<memoVars, hyVars, mountVars, headVars, hydroVars, sameVars, updVars>>
    \/ CGRunning /\ AppendNewGroupSync /\ UNCHANGED <<memoVars, hyVars, mountVars, headVars, hydroVars, sameVars, updVars>>
    \/ CGRunning /\ UpsertOnlyChild /\ UNCHANGED <<memoVars, hyVars, mountVars, headVars, hydroVars, sameVars, updVars>>
    \/ CGRunning /\ RemoveChild /\ UNCHANGED <<memoVars, hyVars, mountVars, headVars, hydroVars, sameVars, updVars>>
    \/ CGRunning /\ SetFirstChild /\ UNCHANGED <<memoVars, hyVars, mountVars, headVars, hydroVars, sameVars, updVars>>
    \/ CGRunning /\ ClearFirstChild /\ UNCHANGED <<memoVars, hyVars, mountVars, headVars, hydroVars, sameVars, updVars>>
    \/ CGRunning /\ ShrinkToFit /\ UNCHANGED <<memoVars, hyVars, mountVars, headVars, hydroVars, sameVars, updVars>>
    \/ CGRunning /\ InsertOnlyChild /\ UNCHANGED <<memoVars, hyVars, mountVars, headVars, hydroVars, sameVars, updVars>>

Spec == Init /\ [][Next]_vars

\* ChildGroups under the calls that keep the parent in registration order
OrderNext ==
    \/ CGRunning /\ NewGroup /\ UNCHANGED <<memoVars, hyVars, mountVars, headVars, hydroVars, sameVars, updVars>>
    \/ CGRunning /\ AppendNewGroupSync /\ UNCHANGED <<memoVars, hyVars, mountVars, headVars, hydroVars, sameVars, updVars>>
    \/ CGRunning /\ UpsertOnlyChild /\ UNCHANGED <<memoVars, hyVars, mountVars, headVars, hydroVars, sameVars, updVars>>
    \/ CGRunning /\ RemoveChild /\ UNCHANGED <<memoVars, hyVars, mountVars, headVars, hydroVars, sameVars, updVars>>

OrderSpec == Init /\ [][OrderNext]_vars

\* Memo
MemoSpecNext ==
    \/ MemoRunning /\ Cache /\ UNCHANGED <<cgVars, hyVars, mountVars, headVars, hydroVars, sameVars, updVars>>
    \/ MemoRunning /\ FlushEffects /\ UNCHANGED <<cgVars, hyVars, mountVars, headVars, hydroVars, sameVars, updVars>>
    \/ MemoRunning /\ DropMemo /\ UNCHANGED <<cgVars, hyVars, mountVars, headVars, hydroVars, sameVars, updVars>>
    \/ MemoRunning /\ FlushAfterDrop /\ UNCHANGED <<cgVars, hyVars, mountVars, headVars, hydroVars, sameVars, updVars>>
    \/ MemoRunning /\ CacheNested /\ UNCHANGED <<cgVars, hyVars, mountVars, headVars, hydroVars, sameVars, updVars>>

MemoSpec == Init /\ [][MemoSpecNext]_vars

\* Hydration
HydrationInit == CGInit /\ MemoInit /\ HyInit /\ MountInit /\ HeadInit /\ HydroInit /\ SameInit /\ UpdInit

HydrationNext ==
    \/ hydrate_child /\ UNCHANGED <<cgVars, memoVars, mountVars, headVars, hydroVars, sameVars, updVars>>
    \/ eval_dom_element /\ UNCHANGED <<cgVars, memoVars, mountVars, headVars, hydroVars, sameVars, updVars>>
    \/ Node_Dry_hydrate_child /\ UNCHANGED <<cgVars, memoVars, mountVars, headVars, hydroVars, sameVars, updVars>>

HydrationSpec == HydrationInit /\ [][HydrationNext]_vars

\* the life of one node: hydration and the mutating calls before and after it
LifecycleInit ==
    /\ HydrationInit
    /\ hy_child \in {ScenarioB_live, ElemNode("div", <<TextNode("old", "existing")>>, "existing")}

LifecycleNext ==
    \/ hydrate_child /\ UNCHANGED <<cgVars, memoVars, mountVars, headVars, hydroVars, sameVars, updVars>>
    \/ eval_dom_element /\ UNCHANGED <<cgVars, memoVars, mountVars, headVars, hydroVars, sameVars, updVars>>
    \/ Node_Dry_hydrate_child /\ UNCHANGED <<cgVars, memoVars, mountVars, headVars, hydroVars, sameVars, updVars>>
    \/ Attribute /\ UNCHANGED <<cgVars, memoVars, mountVars, headVars, hydroVars, sameVars, updVars>>
    \/ clear_children /\ UNCHANGED <<cgVars, memoVars, mountVars, headVars, hydroVars, sameVars, updVars>>

LifecycleSpec == LifecycleInit /\ [][LifecycleNext]_vars

\* mount
MountNext ==
    \/ Mount /\ UNCHANGED <<cgVars, memoVars, hyVars, headVars, hydroVars, sameVars, updVars>>
    \/ WetMount /\ UNCHANGED <<cgVars, memoVars, hyVars, headVars, hydroVars, sameVars, updVars>>
    \/ MountMissing /\ UNCHANGED <<cgVars, memoVars, hyVars, headVars, hydroVars, sameVars, updVars>>
    \/ DropHandle /\ UNCHANGED <<cgVars, memoVars, hyVars, headVars, hydroVars, sameVars, updVars>>
    \/ StopOnDrop /\ UNCHANGED <<cgVars, memoVars, hyVars, headVars, hydroVars, sameVars, updVars>>
    \/ UnmountOnDrop /\ UNCHANGED <<cgVars, memoVars, hyVars, headVars, hydroVars, sameVars, updVars>>
    \/ Stop /\ UNCHANGED <<cgVars, memoVars, hyVars, headVars, hydroVars, sameVars, updVars>>
    \/ Unmount /\ UNCHANGED <<cgVars, memoVars, hyVars, headVars, hydroVars, sameVars, updVars>>
    \/ RemoveAllMounted /\ UNCHANGED <<cgVars, memoVars, hyVars, headVars, hydroVars, sameVars, updVars>>
    \/ HydroMount /\ UNCHANGED <<cgVars, memoVars, hyVars, headVars, sameVars, updVars>>
    \/ RunHydroTask /\ UNCHANGED <<cgVars, memoVars, hyVars, headVars, sameVars, updVars>>
    \/ DropHydro /\ UNCHANGED <<cgVars, memoVars, hyVars, headVars, sameVars, updVars>>
    \/ Wet_unmount_all /\ UNCHANGED <<cgVars, memoVars, hyVars, hydroVars, sameVars, updVars>>
    \/ Hydro_unmount_all /\ UNCHANGED <<cgVars, memoVars, hyVars, hydroVars, sameVars, updVars>>

MountSpec == Init /\ [][MountNext]_vars

\* head mounting
HeadSpecInit == CGInit /\ MemoInit /\ HyIdle /\ MountInit /\ HeadStart /\ HydroInit /\ SameInit /\ UpdInit

HeadNext ==
    \/ WetMountInHead /\ UNCHANGED <<cgVars, memoVars, hyVars, mountVars, hydroVars, sameVars, updVars>>
    \/ HydroMountInHead /\ UNCHANGED <<cgVars, memoVars, hyVars, mountVars, hydroVars, sameVars, updVars>>
    \/ RunHydroHeadTask /\ UNCHANGED <<cgVars, memoVars, hyVars, mountVars, hydroVars, sameVars, updVars>>
    \/ DropHydroHead /\ UNCHANGED <<cgVars, memoVars, hyVars, mountVars, hydroVars, sameVars, updVars>>
    \/ Wet_unmount_all /\ UNCHANGED <<cgVars, memoVars, hyVars, hydroVars, sameVars, updVars>>
    \/ Hydro_unmount_all /\ UNCHANGED <<cgVars, memoVars, hyVars, hydroVars, sameVars, updVars>>

HeadSpec == HeadSpecInit /\ [][HeadNext]_vars

\* is_same
SameNext ==
    \/ NewElement /\ UNCHANGED <<cgVars, memoVars, hyVars, mountVars, headVars, hydroVars, updVars>>
    \/ NewText /\ UNCHANGED <<cgVars, memoVars, hyVars, mountVars, headVars, hydroVars, updVars>>
    \/ Handles /\ UNCHANGED <<cgVars, memoVars, hyVars, mountVars, headVars, hydroVars, updVars>>
    \/ IsSame /\ UNCHANGED <<cgVars, memoVars, hyVars, mountVars, headVars, hydroVars, updVars>>

SameSpec == Init /\ [][SameNext]_vars

\* StateSetter and UPDATE_QUEUE
UpdateNext ==
    \/ state /\ UNCHANGED <<cgVars, memoVars, hyVars, mountVars, headVars, hydroVars, sameVars>>
    \/ Set /\ UNCHANGED <<cgVars, memoVars, hyVars, mountVars, headVars, hydroVars, sameVars>>
    \/ process_updates /\ UNCHANGED <<cgVars, memoVars, hyVars, mountVars, headVars, hydroVars, sameVars>>

UpdateSpec == Init /\ [][UpdateNext]_vars

\* The browser runs a requested animation frame callback.
UpdateFairSpec ==
    /\ UpdateSpec
    /\ WF_vars(process_updates /\ UNCHANGED <<cgVars, memoVars, hyVars, mountVars,
                                              headVars, hydroVars, sameVars>>)

====
